---- MODULE Spec2Model ----
(***************************************************************************)
(* MetaTrack: the file-indexing pipeline (tracker/watcher.py), the         *)
(* metadata store (tracker/metadata_db.py), the vector store               *)
(* (tracker/vectorstore.py), the embedding provider (tracker/embedder.py)  *)
(* and the /search handler, as one state machine.                          *)
(*                                                                         *)
(* Conventions.  A path is named by its string; Chars gives its            *)
(* characters, on which the string functions of the code (lower,           *)
(* startswith, endswith, "in") are computed.  Timestamps are ticks of half *)
(* a second; IsoFormat is datetime.isoformat, which leaves the fraction    *)
(* out when it is zero, and stored times are compared as strings.  Scores  *)
(* are in tenths (10 is a similarity of 1.0).  A text is named by a short  *)
(* string, "" being the empty text.                                        *)
(***************************************************************************)
EXTENDS Integers, Sequences, FiniteSets, TLC

VARIABLES
    fs,            \* the file system: path -> 0 (no file) or the file's mtime tick
    db,            \* the files table: path -> row, for the paths that have a row
    vstore,        \* the SimpleVectorStore object of the running process
    disk,          \* embeddings.npy and embeddings.json as last written
    proc,          \* "down", "scan" (initial scan), "watch" (observer started)
    backend,       \* Embedder.backend of the running process
    scan_todo,     \* files that os.walk listed and the scan has not yet visited
    events,        \* events the observer has delivered and not yet handled
    handler,       \* the pipeline call in progress, between its two writes
    mut,           \* a vector-store mutation in progress (statement by statement)
    qry,           \* a vector-store query in progress (statement by statement)
    response       \* the last answer of the /search handler

vars == <<fs, db, vstore, disk, proc, backend, scan_todo, events, handler, mut,
          qry, response>>

None == "None"

\* None where a sequence is expected (a stored time, the fitted index).
NoSeq == <<>>

\* No vector.
NoVec == [dim |-> 0, c |-> ""]

\* ------------------------------------------------------------------ bounds

MaxTime == 2
MaxEvents == 1
MaxCount == 2
MaxOverlap == 1
MaxHours == 1

\* --------------------------------------------------------- program constants

DIM == 384
FALLBACK_DIM == 32
MAX_FILE_SIZE == 104857600
N_NEIGHBORS == 10
VECTOR_TOP_K == 10
KEYWORD_LIMIT == 5
RESULT_CAP == 5
KEYWORD_BONUS == 10

\* ------------------------------------------------------------------- paths

PA == "/w/a.txt"
PB == "/w/b.py"
PVenv == "/w/Venv/c.txt"
PLock == "/w/~$d.txt"
PDot == "/w/.e.md"
PExe == "/w/f.exe"
PHid == "/w/.h/g.txt"
PC == "/w/c.md"
PD == "/w/ab.txt"
PE == "/w/ba.md"
PF == "/w/bb.txt"

\* A file whose name holds a byte that is no UTF-8 ("<ff>"): Python gives its
\* path as a str with a lone surrogate.
PBad == "/w/<ff>.txt"

AllPaths == {PA, PB, PVenv, PLock, PDot, PExe, PHid, PBad}

\* The files of the searches over a larger index.
RankPaths == {PA, PB, PC, PD, PE, PF}

\* The paths in lexicographic order of their strings.
PathOrder == <<PDot, PHid, PVenv, PA, PD, PB, PE, PF, PC, PExe, PLock, PBad>>

Chars(p) ==
    CASE p = PA -> <<"/", "w", "/", "a", ".", "t", "x", "t">>
      [] p = PB -> <<"/", "w", "/", "b", ".", "p", "y">>
      [] p = PVenv -> <<"/", "w", "/", "V", "e", "n", "v", "/", "c", ".", "t", "x", "t">>
      [] p = PLock -> <<"/", "w", "/", "~", "$", "d", ".", "t", "x", "t">>
      [] p = PDot -> <<"/", "w", "/", ".", "e", ".", "m", "d">>
      [] p = PExe -> <<"/", "w", "/", "f", ".", "e", "x", "e">>
      [] p = PHid -> <<"/", "w", "/", ".", "h", "/", "g", ".", "t", "x", "t">>
      [] p = PC -> <<"/", "w", "/", "c", ".", "m", "d">>
      [] p = PD -> <<"/", "w", "/", "a", "b", ".", "t", "x", "t">>
      [] p = PE -> <<"/", "w", "/", "b", "a", ".", "m", "d">>
      [] p = PF -> <<"/", "w", "/", "b", "b", ".", "t", "x", "t">>
      [] p = PBad -> <<"/", "w", "/", "<ff>", ".", "t", "x", "t">>

WatchRoot == <<"/", "w">>

\* ----------------------------------------------------------- string functions

Min(a, b) == IF a <= b THEN a ELSE b

LowerChar(c) ==
    CASE c = "V" -> "v"
      [] c = "T" -> "t"
      [] c = "X" -> "x"
      [] c = "W" -> "w"
      [] c = "B" -> "b"
      [] OTHER -> c

Lower(s) == [i \in 1..Len(s) |-> LowerChar(s[i])]

\* str.replace('\\', '/')
ReplaceBackslash(s) == [i \in 1..Len(s) |-> IF s[i] = "\\" THEN "/" ELSE s[i]]

StartsWith(s, pre) ==
    Len(pre) <= Len(s) /\ SubSeq(s, 1, Len(pre)) = pre

EndsWith(s, suf) ==
    Len(suf) <= Len(s) /\ SubSeq(s, Len(s) - Len(suf) + 1, Len(s)) = suf

\* sub in s
Contains(s, sub) ==
    \E i \in 1..(Len(s) + 1) :
        i + Len(sub) - 1 <= Len(s) /\ SubSeq(s, i, i + Len(sub) - 1) = sub

\* os.path.basename: what follows the last "/"
Basename(s) ==
    LET slashes == {i \in 1..Len(s) : s[i] = "/"}
        last == IF slashes = {} THEN 0
                ELSE CHOOSE i \in slashes : \A j \in slashes : j <= i
    IN SubSeq(s, last + 1, Len(s))

\* The directory names between the watched root and the file, outermost first.
RECURSIVE SplitDirs(_)
SplitDirs(s) ==
    LET slashes == {i \in 1..Len(s) : s[i] = "/"}
    IN IF slashes = {} THEN <<>>
       ELSE LET first == CHOOSE i \in slashes : \A j \in slashes : i <= j
            IN <<SubSeq(s, 1, first - 1)>> \o SplitDirs(SubSeq(s, first + 1, Len(s)))

DirsBelowRoot(p) ==
    SplitDirs(SubSeq(Chars(p), Len(WatchRoot) + 2, Len(Chars(p))))

\* Lexicographic "<=" of two strings given as sequences of numbers.
RECURSIVE StrLeq(_, _)
StrLeq(a, b) ==
    IF a = <<>> THEN TRUE
    ELSE IF b = <<>> THEN FALSE
    ELSE IF a[1] < b[1] THEN TRUE
    ELSE IF a[1] > b[1] THEN FALSE
    ELSE StrLeq(Tail(a), Tail(b))

\* datetime.fromtimestamp(t).isoformat() of tick t (half seconds): the seconds,
\* and the fraction only when it is not zero.
IsoFormat(t) == IF t % 2 = 0 THEN <<t \div 2>> ELSE <<t \div 2, 5>>

\* -------------------------------------------------------------- eligibility

\* config.EXCLUDED_DIRS and config.VALID_EXTENSIONS: watcher.py reads them, no
\* configuration file of the sources sets them.
EXCLUDED_DIRS == {<<"v", "e", "n", "v">>, <<".", "g", "i", "t">>}

VALID_EXTENSIONS ==
    {<<".", "t", "x", "t">>, <<".", "m", "d">>, <<".", "p", "y">>}

\* Handler._is_path_excluded, a mutant: the path is compared with the excluded
\* directory names as it is written, letter case kept.
IsPathExcludedCaseKept(p) ==
    LET path == Chars(p)
        filename == Basename(path)
        path_as_written == ReplaceBackslash(path)
    IN IF StartsWith(filename, <<"~", "$">>) \/ StartsWith(filename, <<".">>)
       THEN TRUE
       ELSE IF \E excluded_dir \in EXCLUDED_DIRS :
                   Contains(path_as_written, <<"/">> \o excluded_dir \o <<"/">>)
       THEN TRUE
       ELSE IF ~ \E ext \in VALID_EXTENSIONS : EndsWith(Lower(path), ext)
       THEN TRUE
       ELSE FALSE

\* Handler._is_path_excluded
IsPathExcluded(p) ==
    LET path == Chars(p)
        filename == Basename(path)
        path_lower == ReplaceBackslash(Lower(path))
    IN IF StartsWith(filename, <<"~", "$">>) \/ StartsWith(filename, <<".">>)
       THEN TRUE
       ELSE IF \E excluded_dir \in EXCLUDED_DIRS :
                   Contains(path_lower, <<"/">> \o Lower(excluded_dir) \o <<"/">>)
       THEN TRUE
       ELSE IF ~ \E ext \in VALID_EXTENSIONS : EndsWith(Lower(path), ext)
       THEN TRUE
       ELSE FALSE

\* _is_path_excluded of every path, computed once.
ExcludedPaths == {p \in AllPaths : IsPathExcluded(p)}

\* The pruning of os.walk in the initial scan: a directory is entered when its
\* lowered name is not an excluded name and it does not start with a dot.
ScanEnters(p) ==
    \A i \in 1..Len(DirsBelowRoot(p)) :
        LET d == DirsBelowRoot(p)[i]
        IN Lower(d) \notin EXCLUDED_DIRS /\ ~ StartsWith(d, <<".">>)

\* The paths in directories that the initial scan enters, computed once.
ScannedPaths == {p \in AllPaths : ScanEnters(p)}

\* ------------------------------------------------- files and their contents

\* The files the environment can write: version t of path p is the file with
\* mtime t; its text and size are fixed by the version.
FileText(p, t) ==
    CASE p = PA -> (IF t % 2 = 1 THEN "x" ELSE "")
      [] p = PB -> "y"
      [] p = PC -> "x"
      [] p = PD -> "n"
      [] p = PE -> "q"
      [] p = PF -> ""
      [] OTHER -> "z"

FileSize(p, t) ==
    IF p = PB /\ t % 2 = 0 THEN MAX_FILE_SIZE + 1 ELSE MAX_FILE_SIZE

\* The plain-text types of extract_text.
TEXT_TYPES ==
    {<<".", "t", "x", "t">>, <<".", "m", "d">>, <<".", "p", "y">>,
     <<".", "c", "s", "v">>}

\* extract_text: the text of a readable file of a known type, '' otherwise
\* (t = 0: the file is gone, open() fails, '' is returned).
ExtractText(p, t) ==
    IF t = 0 THEN ""
    ELSE IF \E ext \in TEXT_TYPES : EndsWith(Lower(Chars(p)), ext)
    THEN FileText(p, t)
    ELSE ""

\* file_metadata: os.stat of an existing file.
FileMetadata(p, t) ==
    [path |-> p, size |-> FileSize(p, t), modified_at |-> IsoFormat(t)]

\* ----------------------------------------------------------------- embedder

Backends == {"sentence-transformers", "tfidf"}

\* Embedder.embed, a mutant: the zero vector of the empty text has the length
\* of the model's vectors whatever the backend.
EmbedZeroOfModelLength(b, text) ==
    IF text = "" THEN [dim |-> DIM, c |-> ""]
    ELSE IF b = "sentence-transformers" THEN [dim |-> DIM, c |-> text]
    ELSE [dim |-> FALLBACK_DIM, c |-> text]

\* Embedder.embed (watcher.py calls it embed_text): a vector is its length and
\* the text it encodes, "" for the zero vector.
Embed(b, text) ==
    IF text = ""
    THEN [dim |-> IF b = "sentence-transformers" THEN DIM ELSE FALLBACK_DIM, c |-> ""]
    ELSE IF b = "sentence-transformers"
    THEN [dim |-> DIM, c |-> text]
    ELSE [dim |-> FALLBACK_DIM, c |-> text]

\* Cosine similarity of two vectors, in tenths, from -10 to 10 (sklearn: a zero
\* vector is at distance 1 of everything).
CosScore(u, v) ==
    IF u.c = "" \/ v.c = "" THEN 0
    ELSE IF u.c = v.c THEN 10
    ELSE IF {u.c, v.c} = {"q", "x"} THEN 9
    ELSE IF {u.c, v.c} = {"q", "y"} THEN 5
    ELSE IF {u.c, v.c} = {"q", "n"} THEN -5
    ELSE 7

\* ------------------------------------------------------------ metadata store

\* MetadataDB.upsert: INSERT OR REPLACE removes the row of the path and inserts
\* the new one; access_count and total_time_spent_hrs are not among the columns
\* given, so the new row takes their defaults.
DbUpsert(d, meta) ==
    [p \in DOMAIN d \cup {meta.path} |->
        IF p = meta.path
        THEN [size |-> meta.size, modified_at |-> meta.modified_at,
              is_deleted |-> FALSE, access_count |-> 0,
              total_time_spent_hrs |-> 0]
        ELSE d[p]]

\* MetadataDB.mark_deleted, a mutant: the row is removed from the table.
DbMarkDeletedRemoving(d, path) ==
    [p \in DOMAIN d \ {path} |-> d[p]]

\* MetadataDB.mark_deleted
DbMarkDeleted(d, path) ==
    [p \in DOMAIN d |-> IF p = path THEN [d[p] EXCEPT !.is_deleted = TRUE] ELSE d[p]]

\* MetadataDB.get_modified_time, a mutant: the row of a soft-deleted path is
\* read too.
DbGetModifiedTimeAnyRow(d, path) ==
    IF path \in DOMAIN d THEN d[path].modified_at ELSE NoSeq

\* MetadataDB.get_modified_time
DbGetModifiedTime(d, path) ==
    IF path \in DOMAIN d /\ ~ d[path].is_deleted THEN d[path].modified_at ELSE NoSeq

\* MetadataDB.increment_access_count
DbIncrementAccessCount(d, path) ==
    [p \in DOMAIN d |->
        IF p = path THEN [d[p] EXCEPT !.access_count = @ + 1] ELSE d[p]]

\* MetadataDB.update_time_spent
DbUpdateTimeSpent(d, path, hours_spent) ==
    [p \in DOMAIN d |->
        IF p = path THEN [d[p] EXCEPT !.total_time_spent_hrs = @ + hours_spent]
        ELSE d[p]]

\* The planner's filters without an ordering clause: a WHERE fragment over the
\* columns of the table.
Filters == {"1=1", "path LIKE '%.txt'"}

\* The planner's filters with an ordering clause: upper and lower case, spaces
\* before and after, an empty predicate, a predicate that not every row meets.
OrderedFilters ==
    {"1=1 ORDER BY path DESC",
     "1=1 order by path desc",
     " 1=1 ORDER BY path DESC ",
     "  1=1 ORDER BY path DESC",
     "ORDER BY path DESC",
     "path LIKE '%.txt' ORDER BY path DESC"}

\* Filters that are no WHERE fragment: one that SQLite cannot parse, and one
\* with a character that has no UTF-8 encoding (a lone surrogate, written <ff>,
\* that json.loads reads from the escape \udcff in the planner's reply).
MalformedFilters == {"size >", "path = '<ff>'"}

\* The filters that c.execute cannot encode: it raises UnicodeEncodeError, which
\* is no sqlite3.Error.
UnencodableFilters == {"path = '<ff>'"}

\* The characters of a filter.
FilterChars(f) ==
    CASE f = "1=1" ->
             <<"1", "=", "1">>
      [] f = "path LIKE '%.txt'" ->
             <<"p", "a", "t", "h", " ", "L", "I", "K", "E", " ", "'", "%", ".", "t", "x", "t", "'">>
      [] f = "1=1 ORDER BY path DESC" ->
             <<"1", "=", "1", " ", "O", "R", "D", "E", "R", " ", "B", "Y", " ", "p", "a", "t", "h", " ", "D", "E", "S", "C">>
      [] f = "1=1 order by path desc" ->
             <<"1", "=", "1", " ", "o", "r", "d", "e", "r", " ", "b", "y", " ", "p", "a", "t", "h", " ", "d", "e", "s", "c">>
      [] f = " 1=1 ORDER BY path DESC " ->
             <<" ", "1", "=", "1", " ", "O", "R", "D", "E", "R", " ", "B", "Y", " ", "p", "a", "t", "h", " ", "D", "E", "S", "C", " ">>
      [] f = "  1=1 ORDER BY path DESC" ->
             <<" ", " ", "1", "=", "1", " ", "O", "R", "D", "E", "R", " ", "B", "Y", " ", "p", "a", "t", "h", " ", "D", "E", "S", "C">>
      [] f = "ORDER BY path DESC" ->
             <<"O", "R", "D", "E", "R", " ", "B", "Y", " ", "p", "a", "t", "h", " ", "D", "E", "S", "C">>
      [] f = "path LIKE '%.txt' ORDER BY path DESC" ->
             <<"p", "a", "t", "h", " ", "L", "I", "K", "E", " ", "'", "%", ".", "t", "x", "t", "'", " ", "O", "R", "D", "E", "R", " ", "B", "Y", " ", "p", "a", "t", "h", " ", "D", "E", "S", "C">>
      [] f = "size >" ->
             <<"s", "i", "z", "e", " ", ">">>
      [] f = "path = '<ff>'" ->
             <<"p", "a", "t", "h", " ", "=", " ", "'", "<ff>", "'">>

LowerLetters ==
    <<"a", "b", "c", "d", "e", "f", "g", "h", "i", "j", "k", "l", "m", "n", "o", "p", "q", "r", "s", "t", "u", "v", "w", "x", "y", "z">>

UpperLetters ==
    <<"A", "B", "C", "D", "E", "F", "G", "H", "I", "J", "K", "L", "M", "N", "O", "P", "Q", "R", "S", "T", "U", "V", "W", "X", "Y", "Z">>

UpperChar(c) ==
    IF \E i \in 1..Len(LowerLetters) : LowerLetters[i] = c
    THEN UpperLetters[CHOOSE i \in 1..Len(LowerLetters) : LowerLetters[i] = c]
    ELSE c

\* str.upper()
Upper(s) == [i \in 1..Len(s) |-> UpperChar(s[i])]

\* str.strip(): without the white space at both ends
Strip(s) ==
    LET inked == {i \in 1..Len(s) : s[i] # " "}
    IN IF inked = {} THEN <<>>
       ELSE SubSeq(s, CHOOSE i \in inked : \A j \in inked : i <= j,
                      CHOOSE i \in inked : \A j \in inked : j <= i)

\* str.find(sub): the lowest index (from 0) where sub starts in s, -1 if nowhere
Find(s, sub) ==
    LET starts == {i \in 0..Len(s) :
                      i + Len(sub) <= Len(s) /\ SubSeq(s, i + 1, i + Len(sub)) = sub}
    IN IF starts = {} THEN -1 ELSE CHOOSE i \in starts : \A j \in starts : i <= j

ORDER_BY == <<"O", "R", "D", "E", "R", " ", "B", "Y">>

\* The paths that end with ".txt", letter case apart (LIKE '%.txt').
LikeTxt == {p \in AllPaths \cup RankPaths : EndsWith(Lower(Chars(p)), <<".", "t", "x", "t">>)}

FilterHolds(f, p, row) ==
    CASE f = "1=1" -> TRUE
      [] f = "path LIKE '%.txt'" -> p \in LikeTxt

\* The paths of a set in the order of PathOrder, as a sequence.
RECURSIVE InPathOrder(_, _)
InPathOrder(S, i) ==
    IF i > Len(PathOrder) THEN <<>>
    ELSE (IF PathOrder[i] \in S THEN <<PathOrder[i]>> ELSE <<>>)
         \o InPathOrder(S, i + 1)

Reverse(seq) == [i \in 1..Len(seq) |-> seq[Len(seq) + 1 - i]]

RowsOf(d, seq) == [i \in 1..Len(seq) |-> [path |-> seq[i], row |-> d[seq[i]]]]

\* What SQLite reads in "WHERE (<text>)": the predicate when the text is one,
\* letter case and outer spaces apart; None when it is no expression
\* (c.execute raises sqlite3.Error).
PredicateOf(text) ==
    IF \E f \in Filters : Upper(Strip(text)) = Upper(FilterChars(f))
    THEN CHOOSE f \in Filters : Upper(Strip(text)) = Upper(FilterChars(f))
    ELSE None

\* What SQLite reads in the text after "AND is_deleted = 0": no ordering for no
\* text, the ordering for an ORDER BY clause, None for anything else
\* (c.execute raises sqlite3.Error).
OrderingOf(text) ==
    IF Strip(text) = <<>> THEN "rowid"
    ELSE IF Upper(Strip(text)) = ORDER_BY \o <<" ", "P", "A", "T", "H", " ", "D", "E", "S", "C">>
    THEN "path DESC"
    ELSE None

\* The rows of a set of paths as SELECT returns them under an ordering.
Ordered(S, ordering) ==
    IF ordering = "path DESC" THEN Reverse(InPathOrder(S, 1)) ELSE InPathOrder(S, 1)

\* The SQL of get_files_by_path_and_filter for each filter: what SQLite reads
\* in "AND ({sql_filter})".
PathAndFilterSql ==
    [f \in Filters \cup OrderedFilters \cup MalformedFilters |->
        PredicateOf(FilterChars(f))]

\* MetadataDB.get_files_by_path_and_filter, a mutant: soft-deleted rows too.
GetFilesByPathAndFilterAll(d, paths, f) ==
    LET predicate == PathAndFilterSql[f]
    IN IF paths = {} \/ predicate = None THEN <<>>
       ELSE RowsOf(d, InPathOrder({p \in DOMAIN d :
                       p \in paths /\ FilterHolds(predicate, p, d[p])}, 1))

\* MetadataDB.get_files_by_path_and_filter: [] for no paths and when
\* c.execute raises.
GetFilesByPathAndFilter(d, paths, f) ==
    LET predicate == PathAndFilterSql[f]
    IN IF paths = {} \/ predicate = None THEN <<>>
       ELSE RowsOf(d, InPathOrder({p \in DOMAIN d :
                       /\ p \in paths
                       /\ FilterHolds(predicate, p, d[p])
                       /\ ~ d[p].is_deleted}, 1))

\* get_files_by_filter_only, the split of the filter: it is cut at the index
\* that "ORDER BY" has in the stripped, upper-case copy.
SplitFilter(sql_filter) ==
    LET sql_filter_upper == Upper(Strip(sql_filter))
        order_by_index == Find(sql_filter_upper, ORDER_BY)
        before == Strip(SubSeq(sql_filter, 1, order_by_index))
    IN IF order_by_index >= 0
       THEN [where_clause |-> IF before = <<>> THEN FilterChars("1=1") ELSE before,
             order_by_clause |->
                 Strip(SubSeq(sql_filter, order_by_index + 1, Len(sql_filter)))]
       ELSE [where_clause |-> sql_filter, order_by_clause |-> <<>>]

\* The SQL of get_files_by_filter_only for each filter: what SQLite reads in
\* "WHERE ({where_clause}) AND is_deleted = 0 {order_by_clause}".
FilterOnlySql ==
    [f \in Filters \cup OrderedFilters \cup MalformedFilters |->
        [predicate |-> PredicateOf(SplitFilter(FilterChars(f)).where_clause),
         ordering |-> OrderingOf(SplitFilter(FilterChars(f)).order_by_clause)]]

\* c.execute(sql) of get_files_by_filter_only raises an exception that the
\* except clause (sqlite3.Error) does not catch.
FilterOnlyRaises(f) == f \in UnencodableFilters

\* MetadataDB.get_files_by_filter_only when it returns: [] when c.execute raises
\* sqlite3.Error.
GetFilesByFilterOnly(d, f) ==
    LET sql == FilterOnlySql[f]
    IN IF sql.predicate = None \/ sql.ordering = None THEN <<>>
       ELSE RowsOf(d, Ordered({p \in DOMAIN d :
                       FilterHolds(sql.predicate, p, d[p]) /\ ~ d[p].is_deleted},
                   sql.ordering))

\* The user's raw queries.
Queries == {"a", "b"}

\* The raw queries of the searches over a larger index: one more, in no name.
RankQueries == Queries \cup {"zz"}

QueryChars(q) ==
    CASE q = "a" -> <<"a">>
      [] q = "b" -> <<"B">>
      [] q = "zz" -> <<"z", "z">>

\* The paths whose name holds the query, letter case apart (name LIKE '%q%').
NameLike ==
    [q \in RankQueries |->
        {p \in AllPaths \cup RankPaths : Contains(Lower(Basename(Chars(p))), Lower(QueryChars(q)))}]

\* MetadataDB.get_files_by_keyword (called by watcher.py, not in the sources):
\* the active rows whose name holds the query, letter case apart, at most limit.
GetFilesByKeyword(d, q, limit) ==
    LET hits == InPathOrder({p \in DOMAIN d : ~ d[p].is_deleted /\ p \in NameLike[q]}, 1)
    IN RowsOf(d, SubSeq(hits, 1, Min(limit, Len(hits))))

\* -------------------------------------------------------------- vector store

\* path_to_index is a dict: its entries in insertion order, [k |-> path, v |-> row].
DictKeys(dict) == {dict[i].k : i \in 1..Len(dict)}

DictGet(dict, key) == (CHOOSE i \in 1..Len(dict) : dict[i].k = key)

DictWithout(dict, key) ==
    LET at == DictGet(dict, key)
    IN SubSeq(dict, 1, at - 1) \o SubSeq(dict, at + 1, Len(dict))

\* index_to_path is a dict read by key only: a function row -> path.
MapWithout(f, key) == [x \in DOMAIN f \ {key} |-> f[x]]

MapWith(f, key, val) == [x \in DOMAIN f \cup {key} |-> IF x = key THEN val ELSE f[x]]

EmptyMap == [x \in {} |-> None]

\* No SimpleVectorStore object (the process is down); also the object as
\* __init__ sets it before _load (lines 13-16).
NoStore == [vectors |-> <<>>, path_to_index |-> <<>>, index_to_path |-> EmptyMap,
            index |-> NoSeq]

\* np.delete(vectors, idx, axis=0), rows counted from 0
DeleteRow(vectors, idx) ==
    SubSeq(vectors, 1, idx) \o SubSeq(vectors, idx + 2, Len(vectors))

\* SimpleVectorStore._reset (the index is left as it is)
VsReset(vs) ==
    [vs EXCEPT !.vectors = <<>>, !.path_to_index = <<>>, !.index_to_path = EmptyMap]

\* SimpleVectorStore._rebuild_index, a mutant: an index that exists is kept as
\* it was fitted.
RebuildIndexOnce(vs) ==
    [vs EXCEPT !.index = IF Len(vs.vectors) = 0 THEN NoSeq
                         ELSE IF @ # NoSeq THEN @ ELSE vs.vectors]

\* SimpleVectorStore._rebuild_index: NearestNeighbors fitted on the matrix, or
\* None for an empty matrix.
RebuildIndex(vs) ==
    [vs EXCEPT !.index = IF Len(vs.vectors) = 0 THEN NoSeq ELSE vs.vectors]

\* SimpleVectorStore._save, a mutant: json.dump writes the keys in sorted order.
SaveSortedKeys(vs) ==
    [files |-> {"npy", "json"}, bad |-> {}, npy |-> vs.vectors,
     json |-> [i \in 1..Len(vs.path_to_index) |->
                  vs.path_to_index[
                      CHOOSE j \in 1..Len(vs.path_to_index) :
                          vs.path_to_index[j].k =
                              InPathOrder({vs.path_to_index[n].k :
                                              n \in 1..Len(vs.path_to_index)}, 1)[i]]]]

\* The two files of the store: the files that exist, those of them that
\* cannot be read (a write of the file was cut short), and what the readable
\* ones hold.
\* SimpleVectorStore._save, run to its end
Save(vs) ==
    [files |-> {"npy", "json"}, bad |-> {}, npy |-> vs.vectors,
     json |-> vs.path_to_index]

NoDisk == [files |-> {}, bad |-> {}, npy |-> <<>>, json |-> <<>>]

\* The points at which the process can end inside _save: in np.save, between
\* np.save and the writing of the JSON file, in json.dump.
SavePoints == {"in np.save", "after np.save", "in json.dump"}

\* SimpleVectorStore._save of vs over the files dk, the process ending at
\* the point `at`: open(..., 'w') and np.save truncate the file they write.
SaveCutShort(dk, vs, at) ==
    CASE at = "in np.save" ->
             [files |-> dk.files \cup {"npy"}, bad |-> dk.bad \cup {"npy"},
              npy |-> <<>>, json |-> dk.json]
      [] at = "after np.save" ->
             [files |-> dk.files \cup {"npy"}, bad |-> dk.bad \ {"npy"},
              npy |-> vs.vectors, json |-> dk.json]
      [] at = "in json.dump" ->
             [files |-> {"npy", "json"}, bad |-> {"json"},
              npy |-> vs.vectors, json |-> <<>>]

\* The object as np.load and json.load fill it (lines 23-29 of _load).
Loaded(dk) ==
    [vectors |-> dk.npy, path_to_index |-> dk.json,
     index_to_path |->
         [r \in {dk.json[i].v : i \in 1..Len(dk.json)} |->
             dk.json[CHOOSE i \in 1..Len(dk.json) : dk.json[i].v = r].k],
     index |-> NoSeq]

\* SimpleVectorStore.__init__, a mutant: _load does not compare the number of
\* rows with the number of entries.
VsInitNoCountCheck(dk) ==
    IF "npy" \in dk.files /\ "json" \in dk.files
    THEN IF dk.bad # {}
         THEN RebuildIndex(VsReset(Loaded(dk)))
         ELSE RebuildIndex(Loaded(dk))
    ELSE RebuildIndex(VsReset(NoStore))

\* SimpleVectorStore.__init__: _load, then _rebuild_index
VsInit(dk) ==
    IF "npy" \in dk.files /\ "json" \in dk.files
    THEN IF dk.bad # {}
         THEN RebuildIndex(VsReset(Loaded(dk)))
         ELSE IF Len(dk.npy) # Len(dk.json)
         THEN RebuildIndex(VsReset(Loaded(dk)))
         ELSE RebuildIndex(Loaded(dk))
    ELSE RebuildIndex(VsReset(NoStore))

\* SimpleVectorStore.upsert, a mutant: no check of the vector's length.
VsUpsertNoDimCheck(vs, path, vector) ==
    IF path \in DictKeys(vs.path_to_index)
    THEN LET idx == vs.path_to_index[DictGet(vs.path_to_index, path)].v
         IN RebuildIndex([vs EXCEPT !.vectors[idx + 1] = vector])
    ELSE LET new_idx == Len(vs.vectors)
         IN RebuildIndex(
                [vs EXCEPT !.vectors = Append(@, vector),
                           !.path_to_index = Append(@, [k |-> path, v |-> new_idx]),
                           !.index_to_path = MapWith(@, new_idx, path)])

\* SimpleVectorStore.upsert, a mutant: a known path gets a new row too, and the
\* row it had stays in the matrix.
VsUpsertAppending(vs, path, vector) ==
    IF vector.dim # DIM
    THEN vs
    ELSE LET new_idx == Len(vs.vectors)
         IN RebuildIndex(
                [vs EXCEPT !.vectors = Append(@, vector),
                           !.path_to_index =
                               IF path \in DictKeys(vs.path_to_index)
                               THEN [@ EXCEPT ![DictGet(vs.path_to_index, path)].v = new_idx]
                               ELSE Append(@, [k |-> path, v |-> new_idx]),
                           !.index_to_path = MapWith(@, new_idx, path)])

\* SimpleVectorStore.upsert
VsUpsert(vs, path, vector) ==
    IF vector.dim # DIM
    THEN vs
    ELSE IF path \in DictKeys(vs.path_to_index)
    THEN LET idx == vs.path_to_index[DictGet(vs.path_to_index, path)].v
         IN RebuildIndex([vs EXCEPT !.vectors[idx + 1] = vector])
    ELSE LET new_idx == Len(vs.vectors)
         IN RebuildIndex(
                [vs EXCEPT !.vectors = Append(@, vector),
                           !.path_to_index = Append(@, [k |-> path, v |-> new_idx]),
                           !.index_to_path = MapWith(@, new_idx, path)])

\* Whether upsert reaches its _save.
VsUpsertSaves(vector) == vector.dim = DIM

\* Whether delete reaches its _save.
VsDeleteSaves(vs, path) == path \in DictKeys(vs.path_to_index)

\* SimpleVectorStore.delete, a mutant: the maps keep the row numbers they had.
VsDeleteKeepingRows(vs, path) ==
    IF path \notin DictKeys(vs.path_to_index)
    THEN vs
    ELSE LET idx_to_delete == vs.path_to_index[DictGet(vs.path_to_index, path)].v
         IN RebuildIndex(
                [vs EXCEPT
                    !.vectors = DeleteRow(@, idx_to_delete),
                    !.path_to_index = DictWithout(@, path),
                    !.index_to_path = MapWithout(@, idx_to_delete)])

\* SimpleVectorStore.delete
VsDelete(vs, path) ==
    IF path \notin DictKeys(vs.path_to_index)
    THEN vs
    ELSE LET idx_to_delete == vs.path_to_index[DictGet(vs.path_to_index, path)].v
             popped == DictWithout(vs.path_to_index, path)
         IN RebuildIndex(
                [vs EXCEPT
                    !.vectors = DeleteRow(@, idx_to_delete),
                    !.path_to_index = [i \in 1..Len(popped) |->
                                          [k |-> popped[i].k, v |-> i - 1]],
                    !.index_to_path = [r \in 0..(Len(popped) - 1) |-> popped[r + 1].k]])

\* NearestNeighbors.kneighbors on a fitted matrix: the k rows (from 0) nearest to
\* emb, nearest first, rows at the same distance in row order.
Before(fit, emb, r1, r2) ==
    \/ CosScore(emb, fit[r1 + 1]) > CosScore(emb, fit[r2 + 1])
    \/ CosScore(emb, fit[r1 + 1]) = CosScore(emb, fit[r2 + 1]) /\ r1 < r2

\* kneighbors, a mutant: the first k rows of the matrix, nearest or not.
KNeighborsFirstRows(fit, emb, k) == [i \in 1..k |-> i - 1]

KNeighbors(fit, emb, k) ==
    LET rows == 0..(Len(fit) - 1)
        pos(r) == 1 + Cardinality({r2 \in rows : Before(fit, emb, r2, r)})
    IN [i \in 1..k |-> CHOOSE r \in rows : pos(r) = i]

\* kneighbors raises ValueError when asked for more neighbours than fitted rows
\* or for a vector of another length than the fitted ones.
KNeighborsRaises(fit, emb, k) == k > Len(fit) \/ emb.dim # fit[1].dim

Raised == [raised |-> TRUE, results |-> <<>>]

Returned(results) == [raised |-> FALSE, results |-> results]

\* SimpleVectorStore.query
VsQuery(vs, emb, top_k) ==
    IF vs.index = NoSeq \/ Len(vs.vectors) = 0
    THEN Returned(<<>>)
    ELSE LET k_neighbors == Min(top_k, Len(vs.vectors))
         IN IF KNeighborsRaises(vs.index, emb, k_neighbors)
            THEN Raised
            ELSE LET indices == KNeighbors(vs.index, emb, k_neighbors)
                 IN IF \E i \in 1..Len(indices) : indices[i] \notin DOMAIN vs.index_to_path
                    THEN Raised
                    ELSE Returned([i \in 1..Len(indices) |->
                            [path |-> vs.index_to_path[indices[i]],
                             score |-> CosScore(emb, vs.index[indices[i] + 1])]])

\* ------------------------------------------------------------ /search handler

\* The planner's plans: the "semantic_query" (a text, or None) and the "sql_filter".
Plans == [semantic_query : {None, "q"}, sql_filter : Filters]

\* final_results_map is a dict: its entries in insertion order,
\* [path |-> key, score |-> the score of the value].
EntryPaths(entries) == {entries[i].path : i \in 1..Len(entries)}

EntryAt(entries, path) == CHOOSE i \in 1..Len(entries) : entries[i].path = path

\* The semantic branch's score of a row, a mutant: the score of the best vector
\* result, whatever its path.
ScoreOfBest(vector_results, path) == vector_results[1].score

\* The semantic branch's score of a row: the score of the first vector result
\* with its path, 0 when there is none.
ScoreOf(vector_results, path) ==
    IF \E i \in 1..Len(vector_results) : vector_results[i].path = path
    THEN LET first == CHOOSE i \in 1..Len(vector_results) :
                          /\ vector_results[i].path = path
                          /\ \A j \in 1..(i - 1) : vector_results[j].path # path
         IN vector_results[first].score
    ELSE 0

\* search_endpoint, part 1, a mutant: the semantic branch keeps every vector
\* result, whatever the filter.
FirstBranchUnfiltered(d, vs, b, plan) ==
    IF plan.semantic_query # None
    THEN LET query_vector == Embed(b, plan.semantic_query)
             answer == VsQuery(vs, query_vector, VECTOR_TOP_K)
         IN IF answer.raised THEN Raised
            ELSE Returned([i \in 1..Len(answer.results) |->
                     [path |-> answer.results[i].path,
                      score |-> answer.results[i].score]])
    ELSE LET metadata_results == GetFilesByFilterOnly(d, plan.sql_filter)
         IN Returned([i \in 1..Len(metadata_results) |->
                [path |-> metadata_results[i].path, score |-> 0]])

\* search_endpoint, part 1: the semantic branch, or the pure metadata search.
FirstBranch(d, vs, b, plan) ==
    IF plan.semantic_query # None
    THEN LET query_vector == Embed(b, plan.semantic_query)
             answer == VsQuery(vs, query_vector, VECTOR_TOP_K)
             search_paths == {answer.results[i].path : i \in 1..Len(answer.results)}
             filtered == GetFilesByPathAndFilter(d, search_paths, plan.sql_filter)
         IN IF answer.raised THEN Raised
            ELSE Returned([i \in 1..Len(filtered) |->
                     [path |-> filtered[i].path,
                      score |-> ScoreOf(answer.results, filtered[i].path)]])
    ELSE LET metadata_results == GetFilesByFilterOnly(d, plan.sql_filter)
         IN Returned([i \in 1..Len(metadata_results) |->
                [path |-> metadata_results[i].path, score |-> 0]])

\* search_endpoint, part 2, a mutant: the keyword score replaces the entry's score.
RECURSIVE KeywordMergeReplacing(_, _)
KeywordMergeReplacing(entries, keyword_results) ==
    IF keyword_results = <<>> THEN entries
    ELSE LET res == Head(keyword_results)
             new == [path |-> res.path, score |-> KEYWORD_BONUS]
         IN KeywordMergeReplacing(
                IF res.path \in EntryPaths(entries)
                THEN [entries EXCEPT ![EntryAt(entries, res.path)] = new]
                ELSE Append(entries, new),
                Tail(keyword_results))

\* search_endpoint, part 2: the keyword results merged into final_results_map.
RECURSIVE KeywordMerge(_, _)
KeywordMerge(entries, keyword_results) ==
    IF keyword_results = <<>> THEN entries
    ELSE LET res == Head(keyword_results)
             existing_score == IF res.path \in EntryPaths(entries)
                               THEN entries[EntryAt(entries, res.path)].score
                               ELSE 0
             new == [path |-> res.path, score |-> existing_score + KEYWORD_BONUS]
         IN KeywordMerge(
                IF res.path \in EntryPaths(entries)
                THEN [entries EXCEPT ![EntryAt(entries, res.path)] = new]
                ELSE Append(entries, new),
                Tail(keyword_results))

\* sorted(...), a mutant: the highest score first, equal scores in reverse order.
SortedByScoreTiesReversed(entries) ==
    LET pos(i) == 1 + Cardinality({j \in 1..Len(entries) :
                        \/ entries[j].score > entries[i].score
                        \/ entries[j].score = entries[i].score /\ j > i})
    IN [n \in 1..Len(entries) |-> entries[CHOOSE i \in 1..Len(entries) : pos(i) = n]]

\* sorted(..., key=score, reverse=True): stable, the highest score first.
SortedByScore(entries) ==
    LET pos(i) == 1 + Cardinality({j \in 1..Len(entries) :
                        \/ entries[j].score > entries[i].score
                        \/ entries[j].score = entries[i].score /\ j < i})
    IN [n \in 1..Len(entries) |-> entries[CHOOSE i \in 1..Len(entries) : pos(i) = n]]

\* final_sorted_list of search_endpoint
FinalSortedList(d, vs, b, q, plan) ==
    LET first == FirstBranch(d, vs, b, plan)
    IN IF first.raised THEN Raised
       ELSE Returned(SortedByScore(
                KeywordMerge(first.results, GetFilesByKeyword(d, q, KEYWORD_LIMIT))))

\* final_results, a mutant: the whole sorted list.
FinalResultsUncut(final_sorted_list) == final_sorted_list

\* final_results = final_sorted_list[:5]
FinalResults(final_sorted_list) ==
    SubSeq(final_sorted_list, 1, Min(RESULT_CAP, Len(final_sorted_list)))

\* search_endpoint, part 3: increment_access_count for each result in turn.
RECURSIVE IncrementAll(_, _)
IncrementAll(d, results) ==
    IF results = <<>> THEN d
    ELSE IncrementAll(DbIncrementAccessCount(d, Head(results).path), Tail(results))

\* ------------------------------------------------------------- the file system

\* The observer delivers an event for a change only while it runs.
Deliver(type, path) ==
    IF proc = "watch"
    THEN /\ Len(events) < MaxEvents
         /\ events' = Append(events, [type |-> type, path |-> path])
    ELSE UNCHANGED events

\* A file appears at path p with mtime t (written, copied or moved in).
FsCreate(p, t) ==
    /\ fs[p] = 0
    /\ fs' = [fs EXCEPT ![p] = t]
    /\ Deliver("created", p)
    /\ UNCHANGED <<db, vstore, disk, proc, backend, scan_todo, handler, mut, qry,
                   response>>

\* The file at path p is written again: its mtime advances to t.
FsModify(p, t) ==
    /\ fs[p] > 0
    /\ t > fs[p]
    /\ fs' = [fs EXCEPT ![p] = t]
    /\ Deliver("modified", p)
    /\ UNCHANGED <<db, vstore, disk, proc, backend, scan_todo, handler, mut, qry,
                   response>>

\* The file at path p is removed.
FsDelete(p) ==
    /\ fs[p] > 0
    /\ fs' = [fs EXCEPT ![p] = 0]
    /\ Deliver("deleted", p)
    /\ UNCHANGED <<db, vstore, disk, proc, backend, scan_todo, handler, mut, qry,
                   response>>

\* ------------------------------------------------------------------ __main__

\* No pipeline call in progress.
Idle == [op |-> "idle", path |-> None, emb |-> NoVec]

\* No vector-store mutation in progress.
MutIdle ==
    [pc |-> "idle", path |-> None, vector |-> NoVec, idx |-> 0,
     before |-> NoStore, after |-> NoStore]

\* No vector-store query in progress.
QryIdle ==
    [pc |-> "idle", emb |-> NoVec, top_k |-> 0, k |-> 0, indices |-> <<>>,
     scores |-> <<>>, results |-> <<>>, raised |-> FALSE, seen |-> {}, overlaps |-> 0]

\* Start of the process: the components are built (the embedding model loads
\* or the Embedder falls back), the server thread starts, and os.walk lists the
\* files of the watched root for the initial scan.
Start(b) ==
    /\ proc = "down"
    /\ proc' = "scan"
    /\ backend' = b
    /\ vstore' = VsInit(disk)
    /\ scan_todo' = {p \in ScannedPaths : fs[p] > 0}
    /\ UNCHANGED <<fs, db, disk, events, handler, mut, qry, response>>

\* The process ends at any point (killed, crashed, interrupted): what it held
\* in memory is gone, the files table and the embeddings files stay.
Stop ==
    /\ proc # "down"
    /\ proc' = "down"
    /\ backend' = None
    /\ vstore' = NoStore
    /\ scan_todo' = {}
    /\ events' = <<>>
    /\ handler' = Idle
    /\ UNCHANGED <<fs, db, disk, mut, qry, response>>

\* Handler.process_file, a mutant: change detection skips only a file that is
\* older than the stored time.
ProcessFileSkipsOlderOnly(path, check_modified_time) ==
    LET current_meta == FileMetadata(path, fs[path])
        stored_mod_time_str == DbGetModifiedTime(db, path)
    IN \/ path \in ExcludedPaths
       \/ fs[path] = 0
       \/ /\ check_modified_time
          /\ stored_mod_time_str # NoSeq
          /\ StrLeq(current_meta.modified_at, stored_mod_time_str)
          /\ current_meta.modified_at # stored_mod_time_str
       \/ current_meta.size > MAX_FILE_SIZE

\* Handler.process_file, a mutant: the size guard stops a file of the maximum
\* size too.
ProcessFileSkipsAtLimit(path, check_modified_time) ==
    LET current_meta == FileMetadata(path, fs[path])
        stored_mod_time_str == DbGetModifiedTime(db, path)
    IN \/ path \in ExcludedPaths
       \/ fs[path] = 0
       \/ /\ check_modified_time
          /\ stored_mod_time_str # NoSeq
          /\ StrLeq(current_meta.modified_at, stored_mod_time_str)
       \/ current_meta.size >= MAX_FILE_SIZE

\* Handler.process_file, the early returns: an excluded path, no file, change
\* detection, the size guard.
ProcessFileSkips(path, check_modified_time) ==
    LET current_meta == FileMetadata(path, fs[path])
        stored_mod_time_str == DbGetModifiedTime(db, path)
    IN \/ path \in ExcludedPaths
       \/ fs[path] = 0
       \/ /\ check_modified_time
          /\ stored_mod_time_str # NoSeq
          /\ StrLeq(current_meta.modified_at, stored_mod_time_str)
       \/ current_meta.size > MAX_FILE_SIZE

\* The paths that sqlite3 cannot bind as a parameter: c.execute(sql, (path,))
\* and c.execute(sql, meta) raise UnicodeEncodeError, which is no sqlite3.Error,
\* so the methods of MetadataDB do not catch it.
Unbindable == {PBad}

\* Handler.process_file, the calls that raise: db.get_modified_time or db.upsert
\* for a path that cannot be bound; the except clause of process_file catches
\* and logs, nothing is written.
ProcessFileRaises(path) == path \in Unbindable

\* Handler.process_file up to db.upsert; vstore.upsert is the next step.
ProcessFile(path, check_modified_time) ==
    IF ProcessFileSkips(path, check_modified_time) \/ ProcessFileRaises(path)
    THEN UNCHANGED <<db, handler>>
    ELSE /\ db' = DbUpsert(db, FileMetadata(path, fs[path]))
         /\ handler' = [op |-> "upsert", path |-> path,
                        emb |-> Embed(backend, ExtractText(path, fs[path]))]

\* The initial scan visits one of the listed files.
ScanVisit(p) ==
    /\ proc = "scan"
    /\ handler = Idle
    /\ p \in scan_todo
    /\ scan_todo' = scan_todo \ {p}
    /\ IF p \in ExcludedPaths
       THEN UNCHANGED <<db, handler>>
       ELSE ProcessFile(p, TRUE)
    /\ UNCHANGED <<fs, vstore, disk, proc, backend, events, mut, qry, response>>

\* The initial scan is over: the observer is scheduled and started.
ObserverStart ==
    /\ proc = "scan"
    /\ handler = Idle
    /\ scan_todo = {}
    /\ proc' = "watch"
    /\ UNCHANGED <<fs, db, vstore, disk, backend, scan_todo, events, handler, mut,
                   qry, response>>

\* ------------------------------------------------------------ event handlers

\* Handler.on_created
OnCreated ==
    /\ proc = "watch"
    /\ handler = Idle
    /\ events # <<>>
    /\ Head(events).type = "created"
    /\ events' = Tail(events)
    /\ ProcessFile(Head(events).path, FALSE)
    /\ UNCHANGED <<fs, vstore, disk, proc, backend, scan_todo, mut, qry, response>>

\* Handler.on_modified
OnModified ==
    /\ proc = "watch"
    /\ handler = Idle
    /\ events # <<>>
    /\ Head(events).type = "modified"
    /\ events' = Tail(events)
    /\ ProcessFile(Head(events).path, TRUE)
    /\ UNCHANGED <<fs, vstore, disk, proc, backend, scan_todo, mut, qry, response>>

\* Handler.on_deleted up to db.mark_deleted; vstore.delete is the next step.
\* on_deleted has no except clause: when db.mark_deleted raises, the exception
\* leaves the handler and ends the observer's dispatching thread, the process
\* runs on without it (proc = "deaf").
OnDeleted ==
    /\ proc = "watch"
    /\ handler = Idle
    /\ events # <<>>
    /\ Head(events).type = "deleted"
    /\ events' = Tail(events)
    /\ IF Head(events).path \in ExcludedPaths
       THEN UNCHANGED <<db, handler, proc>>
       ELSE IF Head(events).path \in Unbindable
       THEN /\ proc' = "deaf"
            /\ UNCHANGED <<db, handler>>
       ELSE /\ db' = DbMarkDeleted(db, Head(events).path)
            /\ handler' = [op |-> "delete", path |-> Head(events).path, emb |-> NoVec]
            /\ UNCHANGED proc
    /\ UNCHANGED <<fs, vstore, disk, backend, scan_todo, mut, qry, response>>

\* Handler.process_file, its second write: vstore.upsert(path, emb).
VectorUpsert ==
    /\ handler.op = "upsert"
    /\ vstore' = VsUpsert(vstore, handler.path, handler.emb)
    /\ disk' = IF VsUpsertSaves(handler.emb) THEN Save(vstore') ELSE disk
    /\ handler' = Idle
    /\ UNCHANGED <<fs, db, proc, backend, scan_todo, events, mut, qry, response>>

\* Handler.on_deleted, its second write: vstore.delete(path).
VectorDelete ==
    /\ handler.op = "delete"
    /\ vstore' = VsDelete(vstore, handler.path)
    /\ disk' = IF VsDeleteSaves(vstore, handler.path) THEN Save(vstore') ELSE disk
    /\ handler' = Idle
    /\ UNCHANGED <<fs, db, proc, backend, scan_todo, events, mut, qry, response>>

\* ------------------------------------------------------------------- search

\* The last answer of /search: the request (the raw query, the planner's plan),
\* the HTTP status, the "files" of a 200 answer as [path, score], and the
\* handler's search_paths (the paths of the vector results).
NoPlan == [semantic_query |-> None, sql_filter |-> None]

NoResponse ==
    [status |-> 0, files |-> <<>>, q |-> None, plan |-> NoPlan, search_paths |-> {}]

\* The answer of the except clause of search_endpoint.
Error500 ==
    [status |-> 500, files |-> <<>>, q |-> None, plan |-> NoPlan, search_paths |-> {}]

\* search_paths of search_endpoint
SearchPaths(vs, b, plan) ==
    IF plan.semantic_query = None THEN {}
    ELSE LET answer == VsQuery(vs, Embed(b, plan.semantic_query), VECTOR_TOP_K)
         IN {answer.results[i].path : i \in 1..Len(answer.results)}

\* search_endpoint when the planner call fails or its answer is no JSON plan.
SearchPlannerFails ==
    /\ proc # "down"
    /\ response' = Error500
    /\ UNCHANGED <<fs, db, vstore, disk, proc, backend, scan_todo, events, handler,
                   mut, qry>>

\* search_endpoint for the raw query q when the planner answers with `plan`,
\* and the summary call answers (summary_ok) or fails.
Search(q, plan, summary_ok) ==
    /\ proc # "down"
    /\ \E sorted \in {FinalSortedList(db, vstore, backend, q, plan)} :
       \E final_results \in {FinalResults(sorted.results)} :
          IF sorted.raised
          THEN /\ response' = Error500
               /\ UNCHANGED db
          ELSE /\ \A i \in 1..Len(final_results) :
                      db[final_results[i].path].access_count < MaxCount
               /\ db' = IncrementAll(db, final_results)
               /\ response' =
                      IF final_results # <<>> /\ ~ summary_ok
                      THEN Error500
                      ELSE [status |-> 200, files |-> final_results, q |-> q,
                            plan |-> plan,
                            search_paths |-> SearchPaths(vstore, backend, plan)]
    /\ UNCHANGED <<fs, vstore, disk, proc, backend, scan_todo, events, handler,
                   mut, qry>>

\* ------------------------------------------------------------ specifications

NoRows == [p \in {} |-> None]

Init ==
    /\ fs = [p \in AllPaths |-> 0]
    /\ db = NoRows
    /\ vstore = NoStore
    /\ disk = NoDisk
    /\ proc = "down"
    /\ backend = None
    /\ scan_todo = {}
    /\ events = <<>>
    /\ handler = Idle
    /\ mut = MutIdle
    /\ qry = QryIdle
    /\ response = NoResponse

\* The files that can be indexed.
PipelinePaths == {PA, PB}

\* The files of the eligibility rules: one that can be indexed, and one for each
\* rule that excludes a path.
EligibilityPaths == {PA, PVenv, PLock, PDot, PExe}

\* The pipeline over the runs of the process, the embedding model loading.
Next ==
    \/ \E p \in PipelinePaths, t \in 1..MaxTime : FsCreate(p, t)
    \/ \E p \in PipelinePaths, t \in 1..MaxTime : FsModify(p, t)
    \/ \E p \in PipelinePaths : FsDelete(p)
    \/ Start("sentence-transformers")
    \/ Stop
    \/ \E p \in PipelinePaths : ScanVisit(p)
    \/ ObserverStart
    \/ OnCreated
    \/ OnModified
    \/ OnDeleted
    \/ VectorUpsert
    \/ VectorDelete

Spec == Init /\ [][Next]_vars

\* The pipeline over the runs of the process, the embedding model loading in
\* some runs and not in others.
NextBackend ==
    \/ \E p \in PipelinePaths, t \in 1..MaxTime : FsCreate(p, t)
    \/ \E p \in PipelinePaths, t \in 1..MaxTime : FsModify(p, t)
    \/ \E p \in PipelinePaths : FsDelete(p)
    \/ \E b \in Backends : Start(b)
    \/ Stop
    \/ \E p \in PipelinePaths : ScanVisit(p)
    \/ ObserverStart
    \/ OnCreated
    \/ OnModified
    \/ OnDeleted
    \/ VectorUpsert
    \/ VectorDelete

SpecBackend == Init /\ [][NextBackend]_vars

\* The files of the pipeline with a file whose path raises in the calls of
\* MetadataDB.
FaultPaths == {PA, PBad}

\* The pipeline over the runs of the process, with calls that raise.
NextFaults ==
    \/ \E p \in FaultPaths, t \in 1..MaxTime : FsCreate(p, t)
    \/ \E p \in FaultPaths, t \in 1..MaxTime : FsModify(p, t)
    \/ \E p \in FaultPaths : FsDelete(p)
    \/ Start("sentence-transformers")
    \/ Stop
    \/ \E p \in FaultPaths : ScanVisit(p)
    \/ ObserverStart
    \/ OnCreated
    \/ OnModified
    \/ OnDeleted
    \/ VectorUpsert
    \/ VectorDelete

SpecFaults == Init /\ [][NextFaults]_vars

\* One run of the process over files of every kind of path.
NextElig ==
    \/ \E p \in EligibilityPaths : FsCreate(p, 1)
    \/ \E p \in EligibilityPaths : FsModify(p, 2)
    \/ \E p \in EligibilityPaths : FsDelete(p)
    \/ Start("sentence-transformers")
    \/ \E p \in EligibilityPaths : ScanVisit(p)
    \/ ObserverStart
    \/ OnCreated
    \/ OnModified
    \/ OnDeleted
    \/ VectorUpsert
    \/ VectorDelete

SpecElig == Init /\ [][NextElig]_vars

\* The files of the scan's pruning: one in the watched folder, one under a
\* directory whose name starts with a dot, one under a directory whose name is
\* an excluded name up to letter case.
WalkPaths == {PA, PHid, PVenv}

\* One run of the process over files in directories that os.walk prunes.
NextWalk ==
    \/ \E p \in WalkPaths : FsCreate(p, 1)
    \/ \E p \in WalkPaths : FsModify(p, 2)
    \/ \E p \in WalkPaths : FsDelete(p)
    \/ Start("sentence-transformers")
    \/ \E p \in WalkPaths : ScanVisit(p)
    \/ ObserverStart
    \/ OnCreated
    \/ OnModified
    \/ OnDeleted
    \/ VectorUpsert
    \/ VectorDelete

SpecWalk == Init /\ [][NextWalk]_vars

\* The process is up on an empty watched folder, the stores are empty, the
\* observer runs.
InitWatching ==
    /\ fs = [p \in AllPaths |-> 0]
    /\ db = NoRows
    /\ vstore = VsInit(NoDisk)
    /\ disk = NoDisk
    /\ proc = "watch"
    /\ backend = "sentence-transformers"
    /\ scan_todo = {}
    /\ events = <<>>
    /\ handler = Idle
    /\ mut = MutIdle
    /\ qry = QryIdle
    /\ response = NoResponse

\* The observer's handlers and the searches of one run of the process.
NextSearch ==
    \/ \E p \in PipelinePaths, t \in 1..MaxTime : FsCreate(p, t)
    \/ \E p \in PipelinePaths, t \in 1..MaxTime : FsModify(p, t)
    \/ \E p \in PipelinePaths : FsDelete(p)
    \/ OnCreated
    \/ OnModified
    \/ OnDeleted
    \/ VectorUpsert
    \/ VectorDelete
    \/ SearchPlannerFails
    \/ \E q \in Queries, plan \in Plans, summary_ok \in BOOLEAN :
           Search(q, plan, summary_ok)

SpecSearch == InitWatching /\ [][NextSearch]_vars

\* ------------------------------------- the vector store, statement by statement

\* A SimpleVectorStore shared by a thread that mutates it (the observer's
\* handlers) and a thread that queries it (a request of the server): each
\* statement of upsert, delete, _rebuild_index and query is one step.  `mut`
\* holds the mutating call's position and locals, with the store as the call
\* found it (before) and as the call leaves it (after); `qry` holds the query's
\* position and locals, with the stores that were in force while it ran (seen).

\* self.index between its assignment and its fit (vectorstore.py, lines 52-53).
Unfitted == <<[dim |-> -1, c |-> "unfitted"]>>

QueryRuns == qry.pc \notin {"idle", "done"}

\* A mutation may begin beside the query in progress, if any: the query has
\* then also run beside that mutation.
QrySees(before, after) ==
    /\ QueryRuns => qry.overlaps < MaxOverlap
    /\ qry' = IF QueryRuns
              THEN [qry EXCEPT !.seen = @ \cup {before, after}, !.overlaps = @ + 1]
              ELSE qry

\* The vectors a handler upserts.
StoredVectors == {Embed("sentence-transformers", "x"), Embed("sentence-transformers", "y")}

\* upsert(path, vector), line 75 and 82: the length is right; the path is known
\* or new.
UpsertCall(path, vector) ==
    /\ proc = "watch"
    /\ mut.pc = "idle"
    /\ vector.dim = DIM
    /\ mut' = [MutIdle EXCEPT
                  !.pc = IF path \in DictKeys(vstore.path_to_index)
                         THEN "set_row" ELSE "vstack",
                  !.path = path, !.vector = vector,
                  !.before = vstore, !.after = VsUpsert(vstore, path, vector)]
    /\ QrySees(vstore, VsUpsert(vstore, path, vector))
    /\ UNCHANGED <<fs, db, vstore, disk, proc, backend, scan_todo, events, handler,
                   response>>

\* upsert, lines 84-85: self.vectors[idx] = vector writes into the matrix, which
\* the fitted index either shares (aliased) or has copied.
UpsertSetRow(aliased) ==
    /\ mut.pc = "set_row"
    /\ LET idx == vstore.path_to_index[DictGet(vstore.path_to_index, mut.path)].v
       IN vstore' = [vstore EXCEPT
                        !.vectors[idx + 1] = mut.vector,
                        !.index = IF aliased /\ idx + 1 \in DOMAIN vstore.index
                                  THEN [@ EXCEPT ![idx + 1] = mut.vector]
                                  ELSE @]
    /\ mut' = [mut EXCEPT !.pc = "save"]
    /\ UNCHANGED <<fs, db, disk, proc, backend, scan_todo, events, handler, qry,
                   response>>

\* upsert, line 88: self.vectors = np.vstack([self.vectors, vector])
UpsertVstack ==
    /\ mut.pc = "vstack"
    /\ vstore' = [vstore EXCEPT !.vectors = Append(@, mut.vector)]
    /\ mut' = [mut EXCEPT !.pc = "map1"]
    /\ UNCHANGED <<fs, db, disk, proc, backend, scan_todo, events, handler, qry,
                   response>>

\* upsert, lines 89-90: new_idx, self.path_to_index[path] = new_idx
UpsertMap1 ==
    /\ mut.pc = "map1"
    /\ vstore' = [vstore EXCEPT
                     !.path_to_index =
                         Append(@, [k |-> mut.path, v |-> Len(vstore.vectors) - 1])]
    /\ mut' = [mut EXCEPT !.pc = "map2", !.idx = Len(vstore.vectors) - 1]
    /\ UNCHANGED <<fs, db, disk, proc, backend, scan_todo, events, handler, qry,
                   response>>

\* upsert, line 91: self.index_to_path[new_idx] = path
UpsertMap2 ==
    /\ mut.pc = "map2"
    /\ vstore' = [vstore EXCEPT !.index_to_path = MapWith(@, mut.idx, mut.path)]
    /\ mut' = [mut EXCEPT !.pc = "save"]
    /\ UNCHANGED <<fs, db, disk, proc, backend, scan_todo, events, handler, qry,
                   response>>

\* delete(path), lines 97-100: the path is known; idx_to_delete = pop(path)
DeleteCall(path) ==
    /\ proc = "watch"
    /\ mut.pc = "idle"
    /\ path \in DictKeys(vstore.path_to_index)
    /\ vstore' = [vstore EXCEPT !.path_to_index = DictWithout(@, path)]
    /\ mut' = [MutIdle EXCEPT
                  !.pc = "pop2", !.path = path,
                  !.idx = vstore.path_to_index[DictGet(vstore.path_to_index, path)].v,
                  !.before = vstore, !.after = VsDelete(vstore, path)]
    /\ QrySees(vstore, VsDelete(vstore, path))
    /\ UNCHANGED <<fs, db, disk, proc, backend, scan_todo, events, handler,
                   response>>

\* delete, line 101: self.index_to_path.pop(idx_to_delete)
DeletePop2 ==
    /\ mut.pc = "pop2"
    /\ vstore' = [vstore EXCEPT !.index_to_path = MapWithout(@, mut.idx)]
    /\ mut' = [mut EXCEPT !.pc = "np_delete"]
    /\ UNCHANGED <<fs, db, disk, proc, backend, scan_todo, events, handler, qry,
                   response>>

\* delete, line 103: self.vectors = np.delete(self.vectors, idx_to_delete, axis=0)
DeleteRows ==
    /\ mut.pc = "np_delete"
    /\ vstore' = [vstore EXCEPT !.vectors = DeleteRow(@, mut.idx)]
    /\ mut' = [mut EXCEPT !.pc = "assign1"]
    /\ UNCHANGED <<fs, db, disk, proc, backend, scan_todo, events, handler, qry,
                   response>>

\* delete, lines 106-113: the new maps are built; self.path_to_index = new
DeleteAssign1 ==
    /\ mut.pc = "assign1"
    /\ vstore' = [vstore EXCEPT
                     !.path_to_index = [i \in 1..Len(@) |-> [k |-> @[i].k, v |-> i - 1]]]
    /\ mut' = [mut EXCEPT !.pc = "assign2"]
    /\ UNCHANGED <<fs, db, disk, proc, backend, scan_todo, events, handler, qry,
                   response>>

\* delete, line 114: self.index_to_path = new_index_to_path
DeleteAssign2 ==
    /\ mut.pc = "assign2"
    /\ vstore' = [vstore EXCEPT
                     !.index_to_path =
                         [r \in 0..(Len(vstore.path_to_index) - 1) |->
                             vstore.path_to_index[r + 1].k]]
    /\ mut' = [mut EXCEPT !.pc = "save"]
    /\ UNCHANGED <<fs, db, disk, proc, backend, scan_todo, events, handler, qry,
                   response>>

\* upsert and delete: self._save()
MutSave ==
    /\ mut.pc = "save"
    /\ disk' = Save(vstore)
    /\ mut' = [mut EXCEPT !.pc = "rebuild"]
    /\ UNCHANGED <<fs, db, vstore, proc, backend, scan_todo, events, handler, qry,
                   response>>

\* _rebuild_index, lines 46-52: None for an empty matrix (the call returns), a
\* new NearestNeighbors otherwise.
MutRebuild ==
    /\ mut.pc = "rebuild"
    /\ IF Len(vstore.vectors) = 0
       THEN /\ vstore' = [vstore EXCEPT !.index = NoSeq]
            /\ mut' = MutIdle
       ELSE /\ vstore' = [vstore EXCEPT !.index = Unfitted]
            /\ mut' = [mut EXCEPT !.pc = "fit"]
    /\ UNCHANGED <<fs, db, disk, proc, backend, scan_todo, events, handler, qry,
                   response>>

\* _rebuild_index, line 53: self.index.fit(self.vectors); the call returns.
MutFit ==
    /\ mut.pc = "fit"
    /\ vstore' = [vstore EXCEPT !.index = vstore.vectors]
    /\ mut' = MutIdle
    /\ UNCHANGED <<fs, db, disk, proc, backend, scan_todo, events, handler, qry,
                   response>>

\* query(emb, top_k), line 122
QueryCall(emb, top_k) ==
    /\ proc = "watch"
    /\ qry.pc = "idle"
    /\ qry' = [QryIdle EXCEPT
                  !.pc = IF vstore.index = NoSeq \/ Len(vstore.vectors) = 0
                         THEN "done" ELSE "k",
                  !.emb = emb, !.top_k = top_k,
                  !.seen = IF mut.pc = "idle" THEN {vstore}
                           ELSE {mut.before, mut.after},
                  !.overlaps = IF mut.pc = "idle" THEN 0 ELSE 1]
    /\ UNCHANGED <<fs, db, vstore, disk, proc, backend, scan_todo, events, handler,
                   mut, response>>

\* query, lines 129-131: k_neighbors
QueryK ==
    /\ qry.pc = "k"
    /\ qry' = [qry EXCEPT
                  !.k = Min(qry.top_k, Len(vstore.vectors)),
                  !.pc = IF Min(qry.top_k, Len(vstore.vectors)) = 0
                         THEN "done" ELSE "kneighbors"]
    /\ UNCHANGED <<fs, db, vstore, disk, proc, backend, scan_todo, events, handler,
                   mut, response>>

\* query, lines 133-134: self.index.kneighbors(emb, n_neighbors=k_neighbors)
\* raises on None (AttributeError), on an index not fitted (NotFittedError), and
\* as KNeighborsRaises tells (ValueError).
QueryKNeighbors ==
    /\ qry.pc = "kneighbors"
    /\ IF \/ vstore.index = NoSeq
          \/ vstore.index = Unfitted
          \/ KNeighborsRaises(vstore.index, qry.emb, qry.k)
       THEN qry' = [qry EXCEPT !.pc = "done", !.raised = TRUE]
       ELSE LET indices == KNeighbors(vstore.index, qry.emb, qry.k)
            IN qry' = [qry EXCEPT
                          !.pc = "loop", !.indices = indices,
                          !.scores = [i \in 1..Len(indices) |->
                                         CosScore(qry.emb, vstore.index[indices[i] + 1])]]
    /\ UNCHANGED <<fs, db, vstore, disk, proc, backend, scan_todo, events, handler,
                   mut, response>>

\* query, lines 137-143: one turn of the loop, self.index_to_path[idx] raising
\* KeyError for a row that is not a key; after the last turn, the return.
QueryLoop ==
    /\ qry.pc = "loop"
    /\ LET i == Len(qry.results) + 1
       IN IF i > Len(qry.indices)
          THEN qry' = [qry EXCEPT !.pc = "done"]
          ELSE IF qry.indices[i] \notin DOMAIN vstore.index_to_path
          THEN qry' = [qry EXCEPT !.pc = "done", !.raised = TRUE, !.results = <<>>]
          ELSE qry' = [qry EXCEPT
                          !.results = Append(@, [path |-> vstore.index_to_path[qry.indices[i]],
                                                 score |-> qry.scores[i]])]
    /\ UNCHANGED <<fs, db, vstore, disk, proc, backend, scan_todo, events, handler,
                   mut, response>>

\* The caller has the query's answer (or its exception).
QueryEnd ==
    /\ qry.pc = "done"
    /\ qry' = QryIdle
    /\ UNCHANGED <<fs, db, vstore, disk, proc, backend, scan_todo, events, handler,
                   mut, response>>

NextVS ==
    \/ \E p \in PipelinePaths, v \in StoredVectors : UpsertCall(p, v)
    \/ \E aliased \in BOOLEAN : UpsertSetRow(aliased)
    \/ UpsertVstack
    \/ UpsertMap1
    \/ UpsertMap2
    \/ \E p \in PipelinePaths : DeleteCall(p)
    \/ DeletePop2
    \/ DeleteRows
    \/ DeleteAssign1
    \/ DeleteAssign2
    \/ MutSave
    \/ MutRebuild
    \/ MutFit
    \/ \E k \in {1, VECTOR_TOP_K} : QueryCall(Embed("sentence-transformers", "q"), k)
    \/ QueryK
    \/ QueryKNeighbors
    \/ QueryLoop
    \/ QueryEnd

SpecVS == InitWatching /\ [][NextVS]_vars

\* ----------------------------------------- the vector store, call by call
\*
\* The SimpleVectorStore of a process that starts, stops and can end inside
\* _save, under whole calls of upsert, delete and query on three paths.

\* A third path that the store holds.
StorePaths == {PA, PB, PC}

\* The vectors given to upsert: of two texts, and of the empty text.
UpsertVectors ==
    StoredVectors \cup {Embed("sentence-transformers", "")}

\* The vectors given to query.
QueryVectors ==
    {Embed("sentence-transformers", "q"), Embed("sentence-transformers", "x")}

\* The top_k given to query: 5 is the default of the parameter.
TopKs == {1, 2, 5}

\* vstore.upsert(path, vector), the whole call
StoreUpsert(path, vector) ==
    /\ proc # "down"
    /\ vstore' = VsUpsert(vstore, path, vector)
    /\ disk' = IF VsUpsertSaves(vector) THEN Save(vstore') ELSE disk
    /\ qry' = QryIdle
    /\ UNCHANGED <<fs, db, proc, backend, scan_todo, events, handler, mut, response>>

\* vstore.delete(path), the whole call; the caller of an earlier query still
\* holds its answer.
StoreDelete(path) ==
    /\ proc # "down"
    /\ vstore' = VsDelete(vstore, path)
    /\ disk' = IF VsDeleteSaves(vstore, path) THEN Save(vstore') ELSE disk
    /\ UNCHANGED <<fs, db, proc, backend, scan_todo, events, handler, mut, qry,
                   response>>

\* The process ends inside the _save of an upsert or of a delete.
StoreEndsInSave(after, at) ==
    /\ proc # "down"
    /\ proc' = "down"
    /\ backend' = None
    /\ vstore' = NoStore
    /\ disk' = SaveCutShort(disk, after, at)
    /\ scan_todo' = {}
    /\ events' = <<>>
    /\ handler' = Idle
    /\ qry' = QryIdle
    /\ UNCHANGED <<fs, db, mut, response>>

StoreUpsertEndsInSave(path, vector, at) ==
    /\ VsUpsertSaves(vector)
    /\ StoreEndsInSave(VsUpsert(vstore, path, vector), at)

StoreDeleteEndsInSave(path, at) ==
    /\ VsDeleteSaves(vstore, path)
    /\ StoreEndsInSave(VsDelete(vstore, path), at)

\* vstore.query(emb, top_k), the whole call: qry holds the call and its answer.
StoreQuery(emb, top_k) ==
    /\ proc # "down"
    /\ qry' = [QryIdle EXCEPT !.pc = "done", !.emb = emb, !.top_k = top_k,
                              !.results = VsQuery(vstore, emb, top_k).results,
                              !.raised = VsQuery(vstore, emb, top_k).raised]
    /\ UNCHANGED <<fs, db, vstore, disk, proc, backend, scan_todo, events, handler,
                   mut, response>>

NextStore ==
    \/ Start("sentence-transformers")
    \/ Stop
    \/ \E path \in StorePaths, vector \in UpsertVectors : StoreUpsert(path, vector)
    \/ \E path \in StorePaths : StoreDelete(path)
    \/ \E path \in StorePaths, vector \in UpsertVectors, at \in SavePoints :
           StoreUpsertEndsInSave(path, vector, at)
    \/ \E path \in StorePaths, at \in SavePoints : StoreDeleteEndsInSave(path, at)
    \/ \E emb \in QueryVectors, top_k \in TopKs : StoreQuery(emb, top_k)

SpecStore == Init /\ [][NextStore]_vars

\* --------------------------------------------- the metadata store, call by call
\*
\* The files table under calls of the methods of MetadataDB, whoever calls.

\* db.upsert(file_metadata(path)) for the file at p as it is at time t
CallUpsert(p, t) ==
    /\ db' = DbUpsert(db, FileMetadata(p, t))
    /\ UNCHANGED <<fs, vstore, disk, proc, backend, scan_todo, events, handler, mut,
                   qry, response>>

\* db.mark_deleted(p)
CallMarkDeleted(p) ==
    /\ db' = DbMarkDeleted(db, p)
    /\ UNCHANGED <<fs, vstore, disk, proc, backend, scan_todo, events, handler, mut,
                   qry, response>>

\* db.increment_access_count(p)
CallIncrementAccessCount(p) ==
    /\ p \in DOMAIN db => db[p].access_count < MaxCount
    /\ db' = DbIncrementAccessCount(db, p)
    /\ UNCHANGED <<fs, vstore, disk, proc, backend, scan_todo, events, handler, mut,
                   qry, response>>

\* db.update_time_spent(p, hours_spent)
CallUpdateTimeSpent(p, hours_spent) ==
    /\ p \in DOMAIN db => db[p].total_time_spent_hrs + hours_spent <= MaxHours
    /\ db' = DbUpdateTimeSpent(db, p, hours_spent)
    /\ UNCHANGED <<fs, vstore, disk, proc, backend, scan_todo, events, handler, mut,
                   qry, response>>

\* db.get_files_by_filter_only(f): the rows returned are kept in response.files
\* with the filter of the call; status 500 stands for an exception that leaves
\* the method.
CallGetFilesByFilterOnly(f) ==
    /\ response' =
           IF FilterOnlyRaises(f)
           THEN [Error500 EXCEPT !.plan.sql_filter = f]
           ELSE [NoResponse EXCEPT !.files = GetFilesByFilterOnly(db, f),
                                   !.plan.sql_filter = f]
    /\ UNCHANGED <<fs, db, vstore, disk, proc, backend, scan_todo, events, handler,
                   mut, qry>>

NextDb ==
    \/ \E p \in PipelinePaths, t \in 1..MaxTime : CallUpsert(p, t)
    \/ \E p \in PipelinePaths : CallMarkDeleted(p)
    \/ \E p \in PipelinePaths : CallIncrementAccessCount(p)
    \/ \E p \in PipelinePaths : CallUpdateTimeSpent(p, 1)

SpecDb == Init /\ [][NextDb]_vars

\* The files table under upsert and mark_deleted and the filters read from it.
NextFilter ==
    \/ \E f \in Filters \cup OrderedFilters : CallGetFilesByFilterOnly(f)
    \/ \E p \in PipelinePaths, t \in 1..MaxTime : CallUpsert(p, t)
    \/ \E p \in PipelinePaths : CallMarkDeleted(p)

SpecFilter == Init /\ [][NextFilter]_vars

\* The files table under upsert and mark_deleted and the filters read from it,
\* malformed ones among them.
NextMalformed ==
    \/ \E f \in Filters \cup MalformedFilters : CallGetFilesByFilterOnly(f)
    \/ \E p \in PipelinePaths, t \in 1..MaxTime : CallUpsert(p, t)
    \/ \E p \in PipelinePaths : CallMarkDeleted(p)

SpecMalformed == Init /\ [][NextMalformed]_vars

\* ------------------------------------------- the searches over a larger index
\*
\* search_endpoint over the stores as the pipeline leaves them for six files
\* that were each processed once: at most one row marked deleted since, at most
\* one vector not in the store (not yet written, or removed with its file).

\* db.upsert(file_metadata(path)) for each path of seq in turn
RECURSIVE RankDb(_, _)
RankDb(seq, d) ==
    IF seq = <<>> THEN d
    ELSE RankDb(Tail(seq), DbUpsert(d, FileMetadata(Head(seq), 1)))

\* vstore.upsert(path, embed_text(extract_text(path))) for each path of seq in turn
RECURSIVE RankStore(_, _)
RankStore(seq, vs) ==
    IF seq = <<>> THEN vs
    ELSE RankStore(Tail(seq),
                   VsUpsert(vs, Head(seq),
                            Embed("sentence-transformers", ExtractText(Head(seq), 1))))

AtMostOne == {S \in SUBSET RankPaths : Cardinality(S) <= 1}

InitRank ==
    \E deleted \in AtMostOne, unwritten \in AtMostOne :
        /\ fs = [p \in AllPaths \cup RankPaths |->
                    IF p \in RankPaths \ deleted THEN 1 ELSE 0]
        /\ db = [p \in RankPaths |->
                    IF p \in deleted
                    THEN DbMarkDeleted(RankDb(InPathOrder(RankPaths, 1), NoRows), p)[p]
                    ELSE RankDb(InPathOrder(RankPaths, 1), NoRows)[p]]
        /\ vstore = RankStore(InPathOrder(RankPaths \ unwritten, 1), VsInit(NoDisk))
        /\ disk = Save(vstore)
        /\ proc = "watch"
        /\ backend = "sentence-transformers"
        /\ scan_todo = {}
        /\ events = <<>>
        /\ handler = Idle
        /\ mut = MutIdle
        /\ qry = QryIdle
        /\ response = NoResponse

\* The planner's plans of these searches: a filter with an ordering clause too.
RankPlans ==
    [semantic_query : {None, "q"},
     sql_filter : Filters \cup {"1=1 ORDER BY path DESC"}]

NextRank ==
    \/ SearchPlannerFails
    \/ \E q \in RankQueries, plan \in RankPlans, summary_ok \in BOOLEAN :
           Search(q, plan, summary_ok)

SpecRank == InitRank /\ [][NextRank]_vars

\* ----------------------------------------------------------- planner replies

\* What the planner call gives search_endpoint: the call raises ("raises"), the
\* text is no JSON ("text"), the text is JSON and no object ("list"), or the
\* text is a JSON object ("object") with its keys; None stands for a key the
\* object has not.
Replies ==
    {[json |-> j, semantic_query |-> None, sql_filter |-> None] :
        j \in {"raises", "text", "list"}}
    \cup [json : {"object"}, semantic_query : {None, "q"}, sql_filter : {None, "1=1"}]

\* The plan of a reply that an unreadable reply would be taken for.
PlanOfReplyDefaulting(reply) ==
    [raised |-> FALSE,
     plan |-> [semantic_query |-> reply.semantic_query,
               sql_filter |-> IF reply.sql_filter = None THEN "1=1"
                              ELSE reply.sql_filter]]

\* The planner step of search_endpoint: generate_content, json.loads,
\* plan.get("sql_filter", "1=1"), plan.get("semantic_query"). `raised` when
\* a line of it raises.
PlanOfReply(reply) ==
    IF reply.json \in {"raises", "text", "list"}
    THEN [raised |-> TRUE, plan |-> NoPlan]
    ELSE [raised |-> FALSE,
          plan |-> [semantic_query |-> reply.semantic_query,
                    sql_filter |-> IF reply.sql_filter = None THEN "1=1"
                                   ELSE reply.sql_filter]]

\* search_endpoint for the raw query q when the planner call gives `reply`.
SearchEndpoint(q, reply, summary_ok) ==
    \E parsed \in {PlanOfReply(reply)} :
        IF parsed.raised
        THEN SearchPlannerFails
        ELSE Search(q, parsed.plan, summary_ok)

\* Handler.on_created when c.execute of db.upsert raises sqlite3.Error (the
\* database is locked by another connection): upsert logs it and returns, and
\* process_file goes on to vstore.upsert.
OnCreatedUpsertFails ==
    /\ proc = "watch"
    /\ handler = Idle
    /\ events # <<>>
    /\ Head(events).type = "created"
    /\ events' = Tail(events)
    /\ IF ProcessFileSkips(Head(events).path, FALSE)
       THEN UNCHANGED handler
       ELSE handler' = [op |-> "upsert", path |-> Head(events).path,
                        emb |-> Embed(backend, ExtractText(Head(events).path,
                                                           fs[Head(events).path]))]
    /\ UNCHANGED <<fs, db, vstore, disk, proc, backend, scan_todo, mut, qry, response>>

\* Handler.on_deleted when c.execute of db.mark_deleted raises sqlite3.Error:
\* mark_deleted logs it and returns, and on_deleted goes on to vstore.delete.
OnDeletedMarkFails ==
    /\ proc = "watch"
    /\ handler = Idle
    /\ events # <<>>
    /\ Head(events).type = "deleted"
    /\ events' = Tail(events)
    /\ IF Head(events).path \in ExcludedPaths
       THEN UNCHANGED handler
       ELSE handler' = [op |-> "delete", path |-> Head(events).path, emb |-> NoVec]
    /\ UNCHANGED <<fs, db, vstore, disk, proc, backend, scan_todo, mut, qry, response>>

\* The observer's handlers of one run of the process, with writes to the files
\* table that fail and are logged.
NextWriteFails ==
    \/ \E p \in PipelinePaths, t \in 1..MaxTime : FsCreate(p, t)
    \/ \E p \in PipelinePaths, t \in 1..MaxTime : FsModify(p, t)
    \/ \E p \in PipelinePaths : FsDelete(p)
    \/ OnCreated
    \/ OnCreatedUpsertFails
    \/ OnModified
    \/ OnDeleted
    \/ OnDeletedMarkFails
    \/ VectorUpsert
    \/ VectorDelete

SpecWriteFails == InitWatching /\ [][NextWriteFails]_vars

\* The searches over the larger index, by the planner's replies.
NextPlanner ==
    \E q \in RankQueries, reply \in Replies, summary_ok \in BOOLEAN :
        SearchEndpoint(q, reply, summary_ok)

SpecPlanner == InitRank /\ [][NextPlanner]_vars

\* ------------------------------------------------------------------- claims

\* The paths of a list of results.
PathsOf(files) == {files[i].path : i \in 1..Len(files)}

\* The path has a vector in the store of the running process.
HasVector(p) == p \in DictKeys(vstore.path_to_index)

\* The startup scan is over, the observer runs, every delivered event has been
\* handled and no pipeline call is in progress.
Quiescent == proc = "watch" /\ events = <<>> /\ handler = Idle

\* db.upsert of path p is the step in which process_file passes its early
\* returns: the pipeline call for p is then between its two writes.
DbUpsertStep(p) ==
    handler.op = "idle" /\ handler'.op = "upsert" /\ handler'.path = p

\* C1: MetadataDB.upsert of a path that has a row leaves the row's
\* access_count and total_time_spent_hrs as they were, and so no step of
\* indexing or search ever lowers the access_count of a row.
C1_UpsertKeepsCounters ==
    [][\A p \in DOMAIN db :
          /\ p \in DOMAIN db'
          /\ db'[p].access_count >= db[p].access_count
          /\ DbUpsertStep(p) =>
                /\ db'[p].access_count = db[p].access_count
                /\ db'[p].total_time_spent_hrs = db[p].total_time_spent_hrs]_vars

\* The statements of a mutation, run to the end, make the store that the
\* whole call makes (VsUpsert, VsDelete), and write it to the files.
MutationMakesAfter ==
    [][mut.pc # "idle" /\ mut'.pc = "idle" =>
          vstore' = mut.after /\ disk' = Save(mut.after)]_vars

\* C2: a query that runs on one thread while an upsert or a delete runs on
\* another never raises and returns what the whole query returns on the store
\* as it was before the mutation or as it is after it.
C2_QueryBeforeOrAfter ==
    qry.pc = "done" =>
        /\ ~ qry.raised
        /\ \E s \in qry.seen : qry.results = VsQuery(s, qry.emb, qry.top_k).results

\* The pipeline meets the file at p with change detection on: the initial scan
\* visits it, or on_modified handles an event for it.
EncounterStep(p) ==
    /\ proc' = proc
    /\ handler = Idle
    /\ \/ /\ proc = "scan"
          /\ p \in scan_todo
          /\ scan_todo' = scan_todo \ {p}
       \/ /\ proc = "watch"
          /\ events # <<>>
          /\ Head(events) = [type |-> "modified", path |-> p]
          /\ events' = Tail(events)

\* What a stop between db.upsert and vstore.upsert leaves for the file at p,
\* the file not changed since: an active row with the file's mtime, no vector.
MetadataAhead(p) ==
    /\ fs[p] > 0
    /\ p \in DOMAIN db
    /\ ~ db[p].is_deleted
    /\ db[p].modified_at = IsoFormat(fs[p])
    /\ ~ HasVector(p)

\* C3: when the process stopped between db.upsert and vstore.upsert of a file
\* and the file has not changed since, the next time the initial scan or
\* on_modified meets the file it processes it again, and the vector write of
\* that call puts the path in the vector store.
C3_NextEncounterWritesVector ==
    [][/\ \A p \in PipelinePaths :
             EncounterStep(p) /\ MetadataAhead(p) =>
                 handler'.op = "upsert" /\ handler'.path = p
       /\ (handler.op = "upsert" /\ handler'.op = "idle" /\ proc' = proc) =>
              handler.path \in DictKeys(vstore'.path_to_index)]_vars

\* C4: once the pipeline is quiescent, every file that exists at a path that
\* can be indexed has an active row whose modified_at is the file's mtime, and
\* a vector, whether it appeared or changed before, during or after the scan.
C4_ExistingFilesIndexed ==
    Quiescent =>
        \A p \in PipelinePaths :
            fs[p] > 0 =>
                /\ p \in DOMAIN db
                /\ ~ db[p].is_deleted
                /\ db[p].modified_at = IsoFormat(fs[p])
                /\ HasVector(p)

\* C5: once the pipeline is quiescent, every file that has a row and is no
\* longer on disk has its row marked deleted and has no vector, whether it
\* was removed while the process ran or while it was down.
C5_RemovedFilesLeaveIndex ==
    Quiescent =>
        \A p \in PipelinePaths :
            fs[p] = 0 /\ p \in DOMAIN db =>
                db[p].is_deleted /\ ~ HasVector(p)

\* A step of search_endpoint that answers with a list of files: the answer it
\* leaves names the request.
SearchReturns ==
    /\ response'.status = 200
    /\ handler' = handler
    /\ events' = events
    /\ fs' = fs
    /\ Search(response'.q, response'.plan, response'.files # <<>>)

\* A step that is no step of the pipeline: a step of search_endpoint.
NoPipelineStep ==
    handler' = handler /\ events' = events /\ proc' = proc /\ DOMAIN db' = DOMAIN db

\* C6: a search request adds exactly 1 to the access_count of each row in the
\* list it returns, and changes no field of any other row.
C6_SearchCountsReturnedOnly ==
    [][/\ SearchReturns =>
             \A p \in PathsOf(response'.files) :
                 db'[p] = [db[p] EXCEPT !.access_count = @ + 1]
       /\ NoPipelineStep =>
             \A p \in DOMAIN db :
                 db'[p] # db[p] =>
                     response'.status = 200 /\ p \in PathsOf(response'.files)]_vars

\* The union by path of the first branch's results and the keyword results:
\* a path carries the score of the first branch, 0 when it has none, and
\* KEYWORD_BONUS more when it is a keyword result.
UnionByPath(first, keyword_results) ==
    {[path |-> p,
      score |-> (IF p \in PathsOf(first)
                 THEN first[CHOOSE i \in 1..Len(first) : first[i].path = p].score
                 ELSE 0)
                + (IF p \in PathsOf(keyword_results) THEN KEYWORD_BONUS ELSE 0)] :
        p \in PathsOf(first) \cup PathsOf(keyword_results)}

\* C7: the merged list of a search is the union by path of the results of the
\* semantic-or-metadata branch and the keyword results, each path once, a
\* keyword path carrying 1.0 more than the score it had (0 when it had none),
\* the highest score first; the answer is the head of that list.
C7_KeywordMergeIsUnion ==
    [][SearchReturns =>
          \A merged \in {FinalSortedList(db, vstore, backend, response'.q,
                                         response'.plan).results} :
          \A union \in {UnionByPath(
                            FirstBranch(db, vstore, backend, response'.plan).results,
                            GetFilesByKeyword(db, response'.q, KEYWORD_LIMIT))} :
             /\ {merged[i] : i \in 1..Len(merged)} = union
             /\ Len(merged) = Cardinality(union)
             /\ \A i, j \in 1..Len(merged) :
                    i < j => merged[i].score >= merged[j].score
             /\ response'.files =
                    SubSeq(merged, 1, Min(RESULT_CAP, Len(merged)))]_vars

\* C7, its case: a search whose filter keeps b.py out of the semantic results
\* although its vector is a candidate, and whose keyword matches b.py, answers
\* b.py with 1.0 ahead of a.txt with 0.9.
C7_Witness ==
    /\ response.status = 200
    /\ response.q = "b"
    /\ response.plan = [semantic_query |-> "q", sql_filter |-> "path LIKE '%.txt'"]
    /\ PB \in response.search_paths
    /\ response.files = <<[path |-> PB, score |-> KEYWORD_BONUS],
                          [path |-> PA, score |-> 9]>>

\* C8: no row that is marked deleted when a search reads the stores is in the
\* list the search returns, whichever branch brought its path.
C8_NoDeletedInResults ==
    [][SearchReturns =>
          \A p \in PathsOf(response'.files) :
              p \in DOMAIN db /\ ~ db[p].is_deleted]_vars

\* C8, its case: a semantic search with the filter that keeps every row had a
\* vector result for a path and did not return it, and the row of the path is
\* marked deleted: the vector was still in the store when the row was read as
\* deleted.
C8_Witness ==
    /\ response.status = 200
    /\ response.plan = [semantic_query |-> "q", sql_filter |-> "1=1"]
    /\ response.files # <<>>
    /\ \E p \in response.search_paths :
           /\ p \notin PathsOf(response.files)
           /\ db[p].is_deleted

\* The paths that cannot be indexed: under an excluded directory whatever the
\* letter case, a name that starts with "~$" or with ".", an extension that
\* is not a valid one.
IneligiblePaths == {PVenv, PLock, PDot, PExe}

\* C9: no event and no scan gives a path that cannot be indexed a row in the
\* files table or a vector, in the store or in its files.
C9_IneligibleNeverIndexed ==
    \A p \in IneligiblePaths :
        /\ p \notin DOMAIN db
        /\ p \notin DictKeys(vstore.path_to_index)
        /\ p \notin DictKeys(disk.json)

\* C9, its case: next to an indexed file, a file exists at a path of each
\* other kind that cannot be indexed, and the observer is about to handle the
\* event of a file removed from the directory Venv.
C9_Witness ==
    /\ proc = "watch"
    /\ handler = Idle
    /\ events = <<[type |-> "deleted", path |-> PVenv]>>
    /\ \A p \in IneligiblePaths \ {PVenv} : fs[p] > 0
    /\ PA \in DOMAIN db
    /\ HasVector(PA)

\* C10: vstore.upsert with a vector whose length is not 384 returns without
\* changing the vectors, the two maps, the index or the files of the store.
C10_WrongLengthUpsertIsNoOp ==
    [][(/\ handler.op = "upsert"
        /\ handler.emb.dim # DIM
        /\ handler'.op = "idle"
        /\ proc' = proc) =>
           vstore' = vstore /\ disk' = disk]_vars

\* C10, its case: the store holds vectors and the pipeline is about to call
\* vstore.upsert with a vector of the fallback length.
C10_Witness ==
    /\ handler.op = "upsert"
    /\ handler.emb.dim = FALLBACK_DIM
    /\ Len(vstore.vectors) > 0
    /\ disk.files # {}

\* The files of the store are there and cannot be loaded as a store: one of
\* them is missing or cannot be read, or the matrix has another number of rows
\* than the mapping has entries.
DiskBroken(dk) ==
    /\ dk.files # {}
    /\ \/ dk.files # {"npy", "json"}
       \/ dk.bad # {}
       \/ Len(dk.npy) # Len(dk.json)

\* C11: a process that starts on files of the store that disagree in their
\* number of rows and entries, or of which one cannot be read, has an empty
\* store: no vectors, two empty maps, and every query answers the empty list.
C11_BrokenFilesLoadEmpty ==
    [][(proc = "down" /\ proc' # "down" /\ DiskBroken(disk)) =>
           /\ vstore'.vectors = <<>>
           /\ vstore'.path_to_index = <<>>
           /\ vstore'.index_to_path = EmptyMap
           /\ \A emb \in QueryVectors, top_k \in TopKs :
                  VsQuery(vstore', emb, top_k) = Returned(<<>>)]_vars

\* C11, its case: the process runs on files whose matrix and mapping disagree,
\* the mapping holding entries; its store is empty and a query got the empty
\* list.
C11_Witness ==
    /\ proc # "down"
    /\ disk.files = {"npy", "json"}
    /\ disk.bad = {}
    /\ Len(disk.npy) # Len(disk.json)
    /\ Len(disk.json) > 0
    /\ vstore.vectors = <<>>
    /\ qry.pc = "done"
    /\ qry.results = <<>>
    /\ ~ qry.raised

\* The row of a path in a store, from 1.
RowOf(vs, p) == vs.path_to_index[DictGet(vs.path_to_index, p)].v + 1

\* The answer of a query without the entries of a path.
WithoutPath(results, p) ==
    LET Kept(e) == e.path # p
    IN SelectSeq(results, Kept)

\* C12: after vstore.delete(P) of a stored path, every remaining path maps to
\* the vector it had, and every query answers what it answered before on the
\* whole store with P left out: P is not returned, the remaining paths have
\* the scores and the relative order they had.
C12_DeleteKeepsRanking ==
    [][\A P \in StorePaths :
          (/\ proc' = proc
           /\ P \in DictKeys(vstore.path_to_index)
           /\ P \notin DictKeys(vstore'.path_to_index)) =>
              /\ DictKeys(vstore'.path_to_index) =
                     DictKeys(vstore.path_to_index) \ {P}
              /\ \A emb \in QueryVectors, top_k \in TopKs :
                     \A all \in {WithoutPath(
                                    VsQuery(vstore, emb, Len(vstore.vectors)).results,
                                    P)} :
                        VsQuery(vstore', emb, top_k) =
                            Returned(SubSeq(all, 1, Min(top_k, Len(all))))
              /\ \A p \in DictKeys(vstore'.path_to_index) :
                     vstore'.vectors[RowOf(vstore', p)] =
                         vstore.vectors[RowOf(vstore, p)]]_vars

\* C12, its case: a query returned three paths, the nearest of them in row 0;
\* that path has been deleted since and the two others are in the store.
C12_Witness ==
    /\ proc # "down"
    /\ qry.pc = "done"
    /\ Len(qry.results) = 3
    /\ qry.results[1].path \notin DictKeys(vstore.path_to_index)
    /\ qry.results[1].score > qry.results[2].score
    /\ qry.results[2].score > qry.results[3].score
    /\ DictKeys(vstore.path_to_index) = {qry.results[2].path, qry.results[3].path}
    /\ vstore.path_to_index[1].k = qry.results[3].path

\* The file at p is not newer than its active row says: the current
\* modified_at string is less than or equal to the stored one.
NotNewerThanStored(p) ==
    /\ p \in DOMAIN db
    /\ ~ db[p].is_deleted
    /\ StrLeq(IsoFormat(fs[p]), db[p].modified_at)

\* The pipeline call for p writes nothing: no row changes and no vector write
\* is left to do.
WritesNothing == db' = db /\ handler' = Idle

\* The pipeline call for p processes the file: it writes the row of p with the
\* file's modified_at and goes on to the vector write.
Processes(p) ==
    /\ handler'.op = "upsert"
    /\ handler'.path = p
    /\ p \in DOMAIN db'
    /\ db'[p].modified_at = IsoFormat(fs[p])
    /\ ~ db'[p].is_deleted

\* C13 as stated: process_file with change detection (the scan, on_modified)
\* writes nothing when the file is not newer than its active row says, and
\* processes the file when it has no active row or when it is newer.
C13_ChangeDetection ==
    [][\A p \in PipelinePaths :
          (EncounterStep(p) /\ fs[p] > 0) =>
              IF NotNewerThanStored(p) THEN WritesNothing ELSE Processes(p)]_vars

\* C13, amended: process_file with change detection writes nothing when the
\* file is not newer than its active row says; it processes the file when it
\* has no active row or when it is newer, if the file is not above the size
\* limit, and writes nothing if it is.
C13_ChangeDetectionWithinSizeLimit ==
    [][\A p \in PipelinePaths :
          (EncounterStep(p) /\ fs[p] > 0) =>
              IF NotNewerThanStored(p) \/ FileSize(p, fs[p]) > MAX_FILE_SIZE
              THEN WritesNothing
              ELSE Processes(p)]_vars

\* C13, its case: the scan is about to visit a.txt, whose active row holds a
\* later time than the file on disk has.
C13_Witness ==
    /\ proc = "scan"
    /\ handler = Idle
    /\ PA \in scan_todo
    /\ fs[PA] = 1
    /\ PA \in DOMAIN db
    /\ ~ db[PA].is_deleted
    /\ db[PA].modified_at = IsoFormat(2)

\* C14: increment_access_count(P) changes no row when P has no row or when
\* the row of P is marked deleted; otherwise it adds 1 to the access_count of
\* P and changes nothing else.
C14_IncrementOnlyActive ==
    [][\A P \in PipelinePaths :
          CallIncrementAccessCount(P) =>
              IF P \notin DOMAIN db \/ db[P].is_deleted
              THEN db' = db
              ELSE db' = [db EXCEPT ![P].access_count = @ + 1]]_vars

\* The predicate and the ordering that a filter is written with.
PredicateIn(f) ==
    IF Contains(Upper(FilterChars(f)), Upper(FilterChars("path LIKE '%.txt'")))
    THEN "path LIKE '%.txt'"
    ELSE "1=1"

OrderingIn(f) ==
    IF Contains(Upper(FilterChars(f)), ORDER_BY) THEN "path DESC" ELSE "rowid"

\* C15: for a filter "<predicate> ORDER BY <ordering>", in any letter case, with
\* or without spaces before and after, and with an empty predicate,
\* get_files_by_filter_only returns exactly the active rows that meet the
\* predicate, in the order of the ordering; for "1=1" it returns exactly the
\* active rows.
C15_FilterOnlySplitsOrderBy ==
    [][\A f \in OrderedFilters \cup {"1=1"} :
          CallGetFilesByFilterOnly(f) =>
              response'.files =
                  RowsOf(db, Ordered({p \in DOMAIN db :
                                         /\ FilterHolds(PredicateIn(f), p, db[p])
                                         /\ ~ db[p].is_deleted},
                                     OrderingIn(f)))]_vars

\* C16: with a semantic query and a filter that is a predicate, the semantic
\* branch holds exactly the paths of the vector results that have an active
\* row meeting the filter, each once, each with the similarity of the stored
\* vector of that path to the query vector; when the keyword search finds
\* nothing, the answer is that list, the highest score first.
C16_SemanticBranchFiltersCandidates ==
    [][/\ SearchReturns
       /\ response'.plan.semantic_query # None
       /\ response'.plan.sql_filter \in Filters
       => \A first \in {FirstBranch(db, vstore, backend, response'.plan).results} :
             /\ PathsOf(first) =
                    {p \in response'.search_paths :
                        /\ p \in DOMAIN db
                        /\ ~ db[p].is_deleted
                        /\ FilterHolds(response'.plan.sql_filter, p, db[p])}
             /\ response'.search_paths \subseteq DictKeys(vstore.path_to_index)
             /\ Len(first) = Cardinality(PathsOf(first))
             /\ \A i \in 1..Len(first) :
                    first[i].score =
                        CosScore(Embed(backend, response'.plan.semantic_query),
                                 vstore.vectors[RowOf(vstore, first[i].path)])
             /\ GetFilesByKeyword(db, response'.q, KEYWORD_LIMIT) = <<>> =>
                    /\ Len(response'.files) = Min(RESULT_CAP, Len(first))
                    /\ \A i \in 1..Len(response'.files) :
                           \E j \in 1..Len(first) : response'.files[i] = first[j]
                    /\ \A i, j \in 1..Len(response'.files) :
                           i < j => response'.files[i].score >= response'.files[j].score
                    /\ \A j \in 1..Len(first) :
                           first[j].path \notin PathsOf(response'.files) =>
                               \A i \in 1..Len(response'.files) :
                                   response'.files[i].score >= first[j].score]_vars

\* C16, its case: a semantic search whose raw query is in no name, with the
\* filter on ".txt": the vector results hold a path whose row is marked
\* deleted and a path whose active row fails the filter, and the answer is the
\* three ".txt" files by falling similarity.
C16_Witness ==
    /\ response.status = 200
    /\ response.q = "zz"
    /\ response.plan = [semantic_query |-> "q", sql_filter |-> "path LIKE '%.txt'"]
    /\ \E p \in response.search_paths : db[p].is_deleted
    /\ PE \in response.search_paths /\ ~ db[PE].is_deleted
    /\ response.files = <<[path |-> PA, score |-> 9], [path |-> PF, score |-> 0],
                          [path |-> PD, score |-> -5]>>

\* The rows that the store query of the first branch of a search returns.
StoreRows(plan, search_paths) ==
    IF plan.semantic_query = None
    THEN GetFilesByFilterOnly(db, plan.sql_filter)
    ELSE GetFilesByPathAndFilter(db, search_paths, plan.sql_filter)

PositionIn(rows, p) == CHOOSE i \in 1..Len(rows) : rows[i].path = p

\* C17: with no semantic query, each returned row of the metadata filter has
\* score 0 (and 1.0 when the keyword search found it too); in every answer, two
\* entries with equal scores that came from the same store query are in the
\* order in which that query returned them, for the metadata filter (the order
\* of its ORDER BY clause when it has one) and for the semantic branch alike.
C17_EqualScoresKeepQueryOrder ==
    [][SearchReturns =>
          \A rows \in {StoreRows(response'.plan, response'.search_paths)} :
          \A keyword_results \in {GetFilesByKeyword(db, response'.q, KEYWORD_LIMIT)} :
             /\ response'.plan.semantic_query = None =>
                    \A i \in 1..Len(response'.files) :
                        response'.files[i].path \in PathsOf(rows) =>
                            response'.files[i].score =
                                IF response'.files[i].path \in PathsOf(keyword_results)
                                THEN KEYWORD_BONUS
                                ELSE 0
             /\ \A i, j \in 1..Len(response'.files) :
                    /\ i < j
                    /\ response'.files[i].score = response'.files[j].score
                    => \A pi \in {response'.files[i].path} :
                       \A pj \in {response'.files[j].path} :
                          /\ pi \in PathsOf(rows) /\ pj \in PathsOf(rows) =>
                                 PositionIn(rows, pi) < PositionIn(rows, pj)
                          /\ pi \notin PathsOf(rows) /\ pj \notin PathsOf(rows) =>
                                 PositionIn(keyword_results, pi)
                                     < PositionIn(keyword_results, pj)]_vars

\* C17, its case: a search with no semantic query, a raw query in no name and
\* the filter "1=1 ORDER BY path DESC" over six active rows answers the first
\* five rows by falling path, each with score 0.
C17_Witness ==
    /\ response.status = 200
    /\ response.q = "zz"
    /\ response.plan = [semantic_query |-> None, sql_filter |-> "1=1 ORDER BY path DESC"]
    /\ response.files = <<[path |-> PC, score |-> 0], [path |-> PF, score |-> 0],
                          [path |-> PE, score |-> 0], [path |-> PB, score |-> 0],
                          [path |-> PD, score |-> 0]>>

\* C18: in the answer of a search, no path that the keyword search did not
\* find stands above a path that it found.
C18_KeywordNeverOutranked ==
    [][SearchReturns =>
          \A keyword_paths \in
                 {PathsOf(GetFilesByKeyword(db, response'.q, KEYWORD_LIMIT))} :
             \A i, j \in 1..Len(response'.files) :
                 i < j =>
                     ~ /\ response'.files[i].path \notin keyword_paths
                       /\ response'.files[j].path \in keyword_paths]_vars

\* C19: every answer of a search holds at most 5 entries, no path twice, and
\* they are the 5 entries of the merged result set with the highest scores (all
\* of them when the set has 5 entries or fewer).
C19_AtMostFiveBest ==
    [][/\ Len(response'.files) <= RESULT_CAP
       /\ SearchReturns =>
             \A first \in {FirstBranch(db, vstore, backend, response'.plan).results} :
             \A keyword_results \in {GetFilesByKeyword(db, response'.q, KEYWORD_LIMIT)} :
             \A union \in {UnionByPath(first, keyword_results)} :
                /\ Len(response'.files) = Min(RESULT_CAP, Cardinality(union))
                /\ Cardinality(PathsOf(response'.files)) = Len(response'.files)
                /\ \A i \in 1..Len(response'.files) : response'.files[i] \in union
                /\ \A e \in union :
                       e.path \notin PathsOf(response'.files) =>
                           \A i \in 1..Len(response'.files) :
                               response'.files[i].score >= e.score]_vars

\* C19, its case: a search whose merged result set has six entries, four of
\* them keyword results, answers the five with the highest scores and leaves
\* out ab.txt, the keyword result with the lowest score.
C19_Witness ==
    /\ response.status = 200
    /\ response.q = "b"
    /\ response.plan = [semantic_query |-> "q", sql_filter |-> "1=1"]
    /\ PD \in response.search_paths /\ ~ db[PD].is_deleted
    /\ response.files = <<[path |-> PE, score |-> 20], [path |-> PB, score |-> 15],
                          [path |-> PF, score |-> 10], [path |-> PA, score |-> 9],
                          [path |-> PC, score |-> 9]>>

\* C20: query(v, top_k) with a vector of the store's length answers the empty
\* list when the store is empty; over n stored vectors it answers
\* min(top_k, n) entries, each a stored path, none twice, each with the
\* similarity (1 - cosine distance) of its stored vector to v, the highest
\* score first, and no stored path left out is nearer to v than a returned
\* one: top_k = 1 answers a stored path at the smallest distance.
C20_QueryAnswersNearest ==
    [][\A v \in QueryVectors, top_k \in TopKs :
          qry'.pc = "done" /\ StoreQuery(v, top_k) =>
              \A results \in {qry'.results} :
              \A stored \in {DictKeys(vstore.path_to_index)} :
                 /\ ~ qry'.raised
                 /\ Len(results) = Min(top_k, Len(vstore.vectors))
                 /\ Cardinality(PathsOf(results)) = Len(results)
                 /\ PathsOf(results) \subseteq stored
                 /\ \A i, j \in 1..Len(results) :
                        i < j => results[i].score >= results[j].score
                 /\ \A i \in 1..Len(results) :
                        results[i].score =
                            CosScore(v, vstore.vectors[RowOf(vstore, results[i].path)])
                 /\ \A p \in stored \ PathsOf(results) :
                        \A i \in 1..Len(results) :
                            results[i].score
                                >= CosScore(v, vstore.vectors[RowOf(vstore, p)])]_vars

\* C20, its case: over three stored vectors of which the last written is the
\* nearest to the query vector, query with top_k = 1 answered that path alone.
C20_Witness ==
    /\ proc # "down"
    /\ qry.pc = "done"
    /\ qry.top_k = 1
    /\ qry.emb = Embed("sentence-transformers", "q")
    /\ Len(vstore.vectors) = 3
    /\ vstore.vectors[3] = Embed("sentence-transformers", "x")
    /\ vstore.vectors[1] # vstore.vectors[3] /\ vstore.vectors[2] # vstore.vectors[3]
    /\ Len(qry.results) = 1
    /\ qry.results[1] = [path |-> vstore.index_to_path[2], score |-> 9]

\* C21: an exception raised while a path is handled, in the startup scan or in
\* the handler of a created, modified or deleted event, does not leave the
\* handler: a visit of the scan leaves the scan running with the other files
\* still to visit, and a handled event leaves the observer's thread handling
\* events.
C21_HandlersCatchExceptions ==
    [][/\ \A p \in FaultPaths :
              ScanVisit(p) => proc' = "scan" /\ scan_todo' = scan_todo \ {p}
       /\ OnCreated \/ OnModified \/ OnDeleted => proc' = "watch"]_vars

\* C22: the handling of a deleted event for an indexed path P ends with the
\* row of P marked deleted and no vector of P in the store; and no execution
\* is left with one of the two done and the other never to come: whenever the
\* pipeline is quiescent, a path whose row is marked deleted has no vector.
C22_DeletionDoesBoth ==
    /\ [][\A p \in PipelinePaths :
             handler.op = "delete" /\ handler.path = p /\ VectorDelete =>
                 /\ p \in DOMAIN db' => db'[p].is_deleted
                 /\ ~ HasVector(p)']_vars
    /\ [](Quiescent =>
             \A p \in PipelinePaths :
                 p \in DOMAIN db /\ db[p].is_deleted => ~ HasVector(p))

\* The path has nothing to delete: it has no row, or its row is marked deleted
\* already, and it has no vector.
NothingToDelete(p) ==
    /\ p \in DOMAIN db => db[p].is_deleted
    /\ ~ HasVector(p)

\* C23: handling a deleted event for a path that was never indexed, or whose
\* deletion was handled before, raises no error and leaves the files table, the
\* store and its files as they were.
C23_DeleteOfUnknownIsNoOp ==
    [][/\ OnDeleted /\ NothingToDelete(Head(events).path) =>
              proc' = "watch" /\ db' = db /\ vstore' = vstore /\ disk' = disk
       /\ VectorDelete /\ NothingToDelete(handler.path) =>
              proc' = proc /\ db' = db /\ vstore' = vstore /\ disk' = disk]_vars

\* C24: in a session whose embedding model did not load, the fallback length
\* is the length of the session: when process_file has indexed a file, the
\* file has its row and a vector of the fallback length in the store.
C24_FallbackLengthIsIndexed ==
    [][\A p \in PipelinePaths :
          (/\ backend = "tfidf"
           /\ handler.op = "upsert"
           /\ handler.path = p
           /\ VectorUpsert) =>
              /\ p \in DOMAIN db' /\ ~ db'[p].is_deleted
              /\ HasVector(p)'
              /\ vstore'.vectors[RowOf(vstore', p)].dim = FALLBACK_DIM]_vars

\* The length of the vectors of a session: 384 with the embedding model, 32
\* with the fallback.
SessionLength == IF backend = "sentence-transformers" THEN DIM ELSE FALLBACK_DIM

\* C25: within a session every vector that the Embedder returns has the same
\* length, for empty and for non-empty text; for the empty text it is the zero
\* vector of that length.
C25_OneLengthPerSession ==
    [][\A p \in PipelinePaths :
          DbUpsertStep(p) /\ proc' = proc =>
              /\ handler'.emb.dim = SessionLength
              /\ ExtractText(p, fs[p]) = "" =>
                     handler'.emb = [dim |-> SessionLength, c |-> ""]
              /\ ExtractText(p, fs[p]) # "" => handler'.emb.c # ""]_vars

\* C25, its case: in a session with the fallback, process_file has embedded a
\* file without text and holds the zero vector of the fallback length.
C25_Witness ==
    /\ backend = "tfidf"
    /\ handler.op = "upsert"
    /\ ExtractText(handler.path, fs[handler.path]) = ""
    /\ handler.emb = [dim |-> FALLBACK_DIM, c |-> ""]

\* C26: a file that can be indexed and gives no text (extraction failed, or the
\* file is empty) is indexed all the same: when process_file has run for it, it
\* has an active row and the zero vector in the store, and the metadata search
\* with a filter that it meets returns it.
C26_NoTextStillIndexed ==
    [][\A p \in PipelinePaths :
          (/\ handler.op = "upsert"
           /\ handler.path = p
           /\ handler.emb.c = ""
           /\ VectorUpsert) =>
              /\ p \in DOMAIN db' /\ ~ db'[p].is_deleted
              /\ p \in PathsOf(GetFilesByFilterOnly(db', "1=1"))
              /\ HasVector(p)'
              /\ vstore'.vectors[RowOf(vstore', p)].c = ""]_vars

NoPlanIn(reply) == reply.json # "object"

\* C27: when the planner call fails, or its reply cannot be read as a plan, the
\* search answers with an error and no store changes: no access_count is
\* incremented, no row and no vector is written or removed.
C27_PlannerFailureChangesNothing ==
    [][\A reply \in Replies :
          (/\ NoPlanIn(reply)
           /\ \E q \in RankQueries, summary_ok \in BOOLEAN :
                  SearchEndpoint(q, reply, summary_ok)) =>
              /\ response'.status = 500
              /\ db' = db
              /\ vstore' = vstore
              /\ disk' = disk]_vars

C27_Witness ==
    /\ response = Error500
    /\ \A p \in RankPaths : db[p].access_count = 0
    /\ \E p \in RankPaths : ~ db[p].is_deleted /\ HasVector(p)

\* C28: a filter that the metadata store cannot execute makes the query return
\* the empty list and raise nothing; no row changes, and a query with a valid
\* filter made after it returns what it would have returned without it.
C28_MalformedFilterReturnsEmpty ==
    [][\A f \in MalformedFilters :
          CallGetFilesByFilterOnly(f) =>
              /\ response'.status # 500
              /\ response'.files = <<>>
              /\ db' = db
              /\ \A g \in Filters :
                     GetFilesByFilterOnly(db', g) = GetFilesByFilterOnly(db, g)]_vars

\* The vector candidate pool of the plan is empty, or no active row of the pool
\* (of the table, for a plan without a semantic query) meets the plan's filter.
\* The pool of top_k = 10 holds every path of a store of two vectors.
NothingMeetsPlan(plan) ==
    \A p \in DOMAIN db :
        (~ db[p].is_deleted /\ FilterHolds(plan.sql_filter, p, db[p])) =>
            /\ plan.semantic_query # None
            /\ ~ HasVector(p)

\* The step is search_endpoint for the raw query q and the plan: an answer with
\* status 200 names both.
SearchStep(q, plan) ==
    /\ response'.status \in {200, 500}
    /\ response'.status = 200 => q = response'.q /\ plan = response'.plan
    /\ handler' = handler /\ events' = events /\ fs' = fs /\ vstore' = vstore
    /\ \E summary_ok \in BOOLEAN : Search(q, plan, summary_ok)

\* C29 as stated: a search whose vector candidate pool is empty, or whose filter
\* matches no row, answers the empty list and no error.
C29_EmptyPoolEmptyResult ==
    [][\A q \in Queries, plan \in Plans :
          NothingMeetsPlan(plan) /\ SearchStep(q, plan) =>
              /\ response'.status = 200
              /\ response'.files = <<>>]_vars

\* C29, amended: a search whose vector candidate pool is empty, or whose filter
\* matches no row, answers the keyword results of the raw query and nothing
\* else, each with the keyword bonus as its score; when the raw query has no
\* keyword result it answers the empty list and no error.
C29_EmptyPoolKeywordResultsOnly ==
    [][\A q \in Queries, plan \in Plans :
          NothingMeetsPlan(plan) /\ SearchStep(q, plan) =>
              \A keyword_results \in {GetFilesByKeyword(db, q, KEYWORD_LIMIT)} :
                 /\ keyword_results = <<>> =>
                        response'.status = 200 /\ response'.files = <<>>
                 /\ response'.status = 200 =>
                        /\ PathsOf(response'.files) = PathsOf(keyword_results)
                        /\ \A i \in 1..Len(response'.files) :
                               response'.files[i].score = KEYWORD_BONUS]_vars

\* C29, its case: a semantic search with a filter that no row of the pool meets
\* (b.py is no .txt file) answers with nothing but b.py, the keyword result.
C29_Witness ==
    /\ response.status = 200
    /\ response.q = "b"
    /\ response.plan = [semantic_query |-> "q", sql_filter |-> "path LIKE '%.txt'"]
    /\ response.search_paths = {PB}
    /\ response.files = <<[path |-> PB, score |-> KEYWORD_BONUS]>>

\* C30: a path that has a row in the metadata store has a row there after
\* every later operation (upsert, mark_deleted, increment_access_count,
\* update_time_spent, a query): deletion sets is_deleted of the row and changes
\* nothing else in the table, whereas vstore.delete takes the path's vector
\* out of the store, out of its maps and out of its files.
C30_RowsStayVectorsGo ==
    [][/\ DOMAIN db \subseteq DOMAIN db'
       /\ \A p \in DOMAIN db :
             /\ DOMAIN DbUpsert(db, FileMetadata(p, 1)) = DOMAIN db
             /\ DOMAIN DbIncrementAccessCount(db, p) = DOMAIN db
             /\ DOMAIN DbUpdateTimeSpent(db, p, 1) = DOMAIN db
             /\ DbMarkDeleted(db, p) = [db EXCEPT ![p].is_deleted = TRUE]
       /\ \A p \in PipelinePaths :
             (handler.op = "idle" /\ handler'.op = "delete" /\ handler'.path = p /\ p \in DOMAIN db) =>
                 db' = [db EXCEPT ![p].is_deleted = TRUE]
       /\ \A p \in PipelinePaths :
             (handler.op = "delete" /\ handler.path = p /\ HasVector(p) /\ VectorDelete) =>
                 /\ p \in DOMAIN db' /\ db'[p].is_deleted
                 /\ ~ HasVector(p)'
                 /\ Len(vstore'.vectors) = Len(vstore.vectors) - 1
                 /\ \A r \in DOMAIN vstore'.index_to_path : vstore'.index_to_path[r] # p
                 /\ Len(disk'.npy) = Len(vstore'.vectors)
                 /\ \A i \in 1..Len(disk'.json) : disk'.json[i].k # p]_vars

\* C30, its case: a file that was indexed and searched for is deleted; its row
\* is soft-deleted with the access count it had, and neither the store nor its
\* files hold a vector of it.
C30_Witness ==
    /\ handler = Idle
    /\ \E p \in PipelinePaths :
          /\ p \in DOMAIN db /\ db[p].is_deleted /\ db[p].access_count > 0
          /\ ~ HasVector(p)
          /\ \A i \in 1..Len(disk.json) : disk.json[i].k # p
          /\ \E o \in PipelinePaths : HasVector(o)

\* C31: after any sequence of upsert and delete calls, a new SimpleVectorStore
\* opened on the files that the store wrote holds the same vectors in the same
\* rows, the same maps in the same order and the same index as the store that
\* wrote them, and answers every query with the same list.
C31_ReopenedStoreIsTheSame ==
    proc # "down" =>
        \A reopened \in {VsInit(disk)} :
            /\ reopened.vectors = vstore.vectors
            /\ reopened.path_to_index = vstore.path_to_index
            /\ reopened.index_to_path = vstore.index_to_path
            /\ reopened.index = vstore.index
            /\ \A emb \in QueryVectors, top_k \in TopKs :
                   VsQuery(reopened, emb, top_k) = VsQuery(vstore, emb, top_k)

\* C31, its case: after upserts and a delete the store holds b.py in row 0 and
\* a.txt in row 1 (a.txt was written last), and its files are those of its
\* last _save.
C31_Witness ==
    /\ proc # "down"
    /\ vstore.path_to_index = <<[k |-> PB, v |-> 0], [k |-> PA, v |-> 1]>>
    /\ vstore.vectors[1] # vstore.vectors[2]
    /\ disk = Save(vstore)

\* on_created handles an event for the file at p.
CreatedStep(p) ==
    /\ proc = "watch"
    /\ proc' = proc
    /\ handler = Idle
    /\ events # <<>>
    /\ Head(events) = [type |-> "created", path |-> p]
    /\ events' = Tail(events)

\* C32: process_file for a file of more than 100 MiB (104857600 bytes) writes
\* nothing to the metadata store and nothing to the vector store; a file of
\* exactly that size, or smaller, passes the size guard and is processed.
C32_SizeGuard ==
    [][\A p \in PipelinePaths :
          (/\ fs[p] > 0
           /\ \/ CreatedStep(p)
              \/ EncounterStep(p) /\ ~ NotNewerThanStored(p)) =>
              IF FileSize(p, fs[p]) > 104857600
              THEN WritesNothing /\ vstore' = vstore /\ disk' = disk
              ELSE Processes(p) /\ db'[p].size = FileSize(p, fs[p])]_vars

\* C32, its case: a.txt, of exactly 100 MiB, has been taken by process_file,
\* and b.py, of one byte more, is on disk and has no row and no vector.
C32_Witness ==
    /\ proc = "watch"
    /\ events = <<>>
    /\ handler.op = "upsert"
    /\ handler.path = PA
    /\ db[PA].size = 104857600
    /\ fs[PB] > 0
    /\ FileSize(PB, fs[PB]) = 104857601
    /\ PB \notin DOMAIN db
    /\ ~ HasVector(PB)

\* C33: whenever no indexing and no deletion is in progress, the two stores
\* agree by path: a path has a vector in the vector store exactly when it has
\* an active row in the metadata store; after any sequence of created, modified
\* and deleted events, a store write that fails and is logged included.
C33_StoresAgreeAtRest ==
    Quiescent =>
        \A p \in PipelinePaths :
            HasVector(p) <=> (p \in DOMAIN db /\ ~ db[p].is_deleted)

\* The maps of a store and its matrix fit: path_to_index maps the stored paths
\* one to one onto the rows 0..n-1 of the matrix, and index_to_path is its
\* inverse.
MapsFit(vs) ==
    \A n \in {Len(vs.vectors)} :
        /\ Len(vs.path_to_index) = n
        /\ Cardinality(DictKeys(vs.path_to_index)) = n
        /\ {vs.path_to_index[i].v : i \in 1..Len(vs.path_to_index)} = 0..(n - 1)
        /\ DOMAIN vs.index_to_path = 0..(n - 1)
        /\ \A i \in 1..Len(vs.path_to_index) :
               vs.index_to_path[vs.path_to_index[i].v] = vs.path_to_index[i].k

\* C34: after every upsert and every delete, path_to_index maps the stored
\* paths one to one onto the rows 0..n-1 of the matrix, index_to_path is its
\* inverse, n is the number of rows, and the row of each path holds the vector
\* last upserted for the path: the row of an upserted path holds the vector
\* given, a deleted path has no row, and the row of every other path holds the
\* vector it held.
C34_MapsAndRowsFit ==
    [][/\ proc' # "down" => MapsFit(vstore')
       /\ \A path \in StorePaths :
             /\ \A vector \in UpsertVectors :
                   StoreUpsert(path, vector) =>
                       /\ path \in DictKeys(vstore'.path_to_index)
                       /\ MapsFit(vstore')
                       /\ vstore'.vectors[RowOf(vstore', path)] = vector
                       /\ \A p \in DictKeys(vstore.path_to_index) \ {path} :
                              /\ p \in DictKeys(vstore'.path_to_index)
                              /\ vstore'.vectors[RowOf(vstore', p)] =
                                     vstore.vectors[RowOf(vstore, p)]
             /\ StoreDelete(path) =>
                   /\ DictKeys(vstore'.path_to_index) =
                          DictKeys(vstore.path_to_index) \ {path}
                   /\ MapsFit(vstore')
                   /\ \A p \in DictKeys(vstore'.path_to_index) :
                          vstore'.vectors[RowOf(vstore', p)] =
                              vstore.vectors[RowOf(vstore, p)]]_vars

\* C34, its case: a query answered with a.txt and b.py, the nearer first;
\* a.txt has been deleted since, and b.py is the one path of the store, in
\* row 0, with the vector it had.
C34_Witness ==
    /\ proc # "down"
    /\ qry.pc = "done"
    /\ Len(qry.results) = 2
    /\ qry.results[1].path = PA
    /\ qry.results[2].path = PB
    /\ qry.results[1].score > qry.results[2].score
    /\ vstore.path_to_index = <<[k |-> PB, v |-> 0]>>
    /\ CosScore(qry.emb, vstore.vectors[1]) = qry.results[2].score
    /\ disk = Save(vstore)

\* A query for as many neighbours as the store has vectors answers with every
\* stored path, each with the score of the vector that its row holds now.
RanksOverCurrent(vs) ==
    \A emb \in QueryVectors :
    \A answer \in {VsQuery(vs, emb, Len(vs.vectors))} :
        /\ ~ answer.raised
        /\ PathsOf(answer.results) = DictKeys(vs.path_to_index)
        /\ Len(answer.results) = Len(vs.vectors)
        /\ \A i \in 1..Len(answer.results) :
               answer.results[i].score =
                   CosScore(emb, vs.vectors[RowOf(vs, answer.results[i].path)])

\* C35: when an upsert or a delete that changes the store returns, the index
\* is fitted on the matrix as it is now, and there is no index exactly when
\* the store is empty; a query made after the call ranks over the vectors
\* stored now and over nothing else.
C35_IndexRebuiltOnChange ==
    [][\A path \in StorePaths :
          (\/ \E vector \in UpsertVectors : StoreUpsert(path, vector)
           \/ StoreDelete(path)) =>
              /\ vstore'.index = NoSeq <=> Len(vstore'.vectors) = 0
              /\ vstore'.index # NoSeq => vstore'.index = vstore'.vectors
              /\ RanksOverCurrent(vstore')]_vars

\* C35, its case: a query answered with a.txt first, before b.py; a.txt has
\* been deleted since, and a query for "q" now answers with b.py alone.
C35_Witness ==
    /\ proc # "down"
    /\ qry.pc = "done"
    /\ qry.emb = Embed("sentence-transformers", "q")
    /\ Len(qry.results) = 2
    /\ qry.results[1].path = PA
    /\ vstore.index = vstore.vectors
    /\ PathsOf(VsQuery(vstore, qry.emb, 5).results) = {PB}

\* process_file runs for the file at p: on_created handles an event for it, or
\* the scan visits it, or on_modified handles an event for it.
ProcessFileStep(p) == CreatedStep(p) \/ EncounterStep(p)

\* The second write of the pipeline call for p leaves p in the store and among
\* the rows that the queries return.
VectorWritten(p) ==
    (handler.op = "upsert" /\ handler.path = p /\ handler.emb.dim = DIM /\ VectorUpsert) =>
        /\ HasVector(p)'
        /\ vstore'.vectors[RowOf(vstore', p)] = handler.emb
        /\ p \in DOMAIN db /\ ~ db[p].is_deleted =>
               /\ p \in PathsOf(GetFilesByFilterOnly(db', "1=1"))
               /\ p \in PathsOf(VsQuery(vstore', handler.emb, Len(vstore'.vectors)).results)

SameStore(vs1, vs2) ==
    /\ vs1.vectors = vs2.vectors
    /\ vs1.path_to_index = vs2.path_to_index
    /\ vs1.index_to_path = vs2.index_to_path

\* The store that the next start loads from the files dk is the store `before`,
\* the store `after`, or the empty store.
LoadsBeforeAfterOrEmpty(dk, before, after) ==
    \A loaded \in {VsInit(dk)} :
        \/ SameStore(loaded, before)
        \/ SameStore(loaded, after)
        \/ SameStore(loaded, VsInit(NoDisk))

\* C37: when the process stops inside a mutation of the vector store, in
\* particular inside _save between the writing of the matrix and the writing
\* of the mapping, the store that the next start loads is the store before the
\* mutation, the store after it, or the empty store, and no path of it is
\* mapped to the vector of another path.
C37_InterruptedSaveLoadsCleanly ==
    [][\A path \in StorePaths, at \in SavePoints :
          /\ \A vector \in UpsertVectors :
                StoreUpsertEndsInSave(path, vector, at) =>
                    LoadsBeforeAfterOrEmpty(disk', vstore, VsUpsert(vstore, path, vector))
          /\ StoreDeleteEndsInSave(path, at) =>
                LoadsBeforeAfterOrEmpty(disk', vstore, VsDelete(vstore, path))]_vars

\* C38: the initial scan and the event handlers agree on the files to index:
\* the scan that begins at the start of the process indexes a file exactly
\* when on_created would index it, a file under a directory whose name starts
\* with a dot and a file under a directory with an excluded name in another
\* letter case included.
C38_ScanAndHandlersAgree ==
    [][\A p \in WalkPaths :
          (proc = "down" /\ proc' = "scan" /\ fs[p] > 0) =>
              ((p \in scan_todo' /\ p \notin ExcludedPaths /\ ~ ProcessFileSkips(p, TRUE))
                   <=> ~ ProcessFileSkips(p, FALSE))]_vars

====
